---- MODULE Spec2Model ----
(***************************************************************************)
(* Server side of remote-desktop-rs: the supervisor (start / stop / accept *)
(* loop / idle sweep) of the TCP, WebSocket and WebRTC servers, and the    *)
(* per-connection ClientSession (authentication gate and command           *)
(* dispatch).  One server instance, NumConns client connections.           *)
(***************************************************************************)
EXTENDS Integers, Sequences, FiniteSets, TLC

\* ---------------------------------------------------------------- bounds
NumConns == 2        \* client connections that may ever be opened
MaxCmds == 2         \* commands dispatched per connection
MaxConnCfg == 2      \* config.max_connections ranges over 1..MaxConnCfg
TickSecs == 10       \* clock resolution: seconds per Tick
MaxTime == 50        \* the clock stops here

\* ------------------------------------------------------ program constants
DEFAULT_QUALITY == 70         \* SessionInfo::new: quality
CLEANUP_INTERVAL == 30       \* seconds between idle sweeps
WEBRTC_RECV_TIMEOUT == 30    \* seconds a WebRTC receive waits

Conns == 1..NumConns
Transports == {"tcp", "ws", "webrtc"}
KeepAliveIntervals == {0, 20}

VARIABLES
    transport,        \* which NetworkServer implementation this instance is
    config,           \* ServerConfig
    now,              \* wall clock, seconds
    \* --- server (TcpServer / WebSocketServer / WebRtcServer fields)
    running,          \* Arc<Mutex<bool>>
    listener,         \* listener thread: "none" | "spawned" | "looping" | "exited"
    thread_control,   \* Option<Sender<()>>: "None" | "Some"
    signal,           \* a () is queued in the control channel
    client_sessions,  \* the session registry
    last_cleanup,     \* accept loop's last sweep instant
    \* --- owner of the server object (&mut self callers)
    ownerPc,          \* "idle" | "stopJoin" (stop() blocked in join)
    lastCall,         \* last start()/stop() that returned Ok: "none"|"start"|"stop"
    \* --- per connection / session
    conn,             \* "new"|"pending"|"rejected"|"handshake"|"serving"|"exiting"|"closed"
    authenticated,    \* session_info.authenticated
    active,           \* ClientSession.active
    client_info,      \* session_info.client_info is Some
    last_activity,    \* session_info.last_activity
    last_keep_alive,  \* ClientSession.last_keep_alive
    readStart,        \* instant the session task's current receive began
    dispatched,       \* commands handed to handle_command so far
    lastCmd,          \* the command of the latest handle_command
    lastSent,         \* responses passed to connection.send by the latest handle_command
    lastInjected,     \* commands passed to the input injector by the latest handle_command
    lastCaptured,     \* capturer calls made by the latest handle_command
    lastResult,       \* what the latest handle_command returned: "None"|"Ok"|"Err"
    authOk,           \* Authenticate commands the authenticator accepted so far
    acceptedAtFull,   \* connections accepted while the registry was full
    \* --- the client program at the other end of connection 1
    cl_state,         \* NetworkClient state: ConnectionState
    cl_op,            \* the client call in progress: "none"|"connect"|"check_latency"|"screenshot"
    cl_await,         \* the response its pending receive() is for: "none"|"AuthResult"|"Pong"|"ScreenshotData"
    cl_inflight,      \* the command it sent that the server has not read yet
    cl_wire,          \* responses the server sent that it has not read yet
    cl_result,        \* what its latest finished call returned: "none"|"Ok"|"Err"|"Other"
    cl_last_check,    \* last_latency_check: instant of the last measurement, -1 for None
    \* --- the mutexes and the threads' positions inside a command
    mtx_capturer,     \* owner of Arc<Mutex<ScreenCapture>>: Free or a session's thread
    mtx_injector,     \* owner of Arc<Mutex<InputHandler>>
    mtx_registry,     \* owner of the registry's mutex: Free, Listener, a session's thread
    mtx_session,      \* per session, owner of Arc<Mutex<ClientSession>>
    poison_shared,    \* poisoned ones among "capturer", "injector", "registry"
    poison_session,   \* sessions whose mutex is poisoned
    th_pc,            \* per session thread: "idle"|"locked"|"cap_locked"|"encoding"|
                      \*   "inj_locked"|"sending"|"dead"
    th_cmd,           \* the type of the command the thread is handling
    th_ext,           \* whether the capturer / injector call of that command succeeded
    th_todo,          \* OS events of that command still to be injected
    os_events,        \* OS events injected so far: <<session, command number, event>>
    lst_pc,           \* listener thread: "loop" | "sweep" | "dead"
    lst_scan,         \* sessions the sweep in progress has yet to visit
    faulted,          \* sessions in whose task a panic was raised
    \* --- the TCP byte stream and the wire codec
    wire_c2s,         \* bytes the client wrote that the server has not read yet
    wire_sent,        \* commands the client passed to send_message, in order
    wire_rcvd,        \* commands the server's reads handed to handle_command, in order
    rx_state,         \* per side, receive_message: "idle"|"payload"|"Ok"|"Err"
    rx_alloc,         \* per side, length of the buffer receive_message allocated, -1 for none
    rx_avail,         \* per side, payload bytes the peer wrote after the prefix
    codec_in,         \* the value the sending peer encoded
    codec_out,        \* what the receiving peer decoded from it
    \* --- the sessions' capture preferences
    quality,          \* per session, SessionInfo.quality
    shot_quality,     \* per session, CaptureOptions.quality of its latest screenshot, -1 for none
    shot_format,      \* per session, format its latest screenshot was encoded in
    fmt_requested,    \* per session, format of the latest SetImageFormat it handled
    ext_failed,       \* per session, whether the capturer / injector call of its latest
                      \*   command failed
    \* --- the keyboard handler
    block_shortcuts,  \* KeyboardConfig.block_shortcuts of the KeyboardHandler
    kb_call,          \* its latest call: operation, keys, modifiers, and the policy it read
    kb_events,        \* OS key events that call injected, in order: <<"down"|"up", key>>
    kb_result,        \* what that call returned: "None"|"Ok"|"InvalidInput"|"SystemError"
    \* --- the command processor's file transfers
    feature_file_transfer, \* whether the build enables the cargo feature "file-transfer"
    next_transfer_id, \* CommandProcessor.next_transfer_id
    active_transfers, \* CommandProcessor.active_transfers: set of FileTransfer records
    fs_dirs,          \* directories the server created, as resolved paths
    fs_files,         \* files the server created, as resolved paths
    fs_written,       \* files the server wrote data to, as resolved paths
    ft_response,      \* the response to the latest transfer command: "None"|
                      \*   "FileTransferStatus"|"Error"
    \* --- the diff calculator
    diff_config,      \* DiffCalculator.config
    previous,         \* DiffCalculator.previous, NoFrame for None
    diff_before,      \* what previous was when the latest calculate began
    diff_arg,         \* the frame the latest calculate was given, NoFrame before the first
    diff_result,      \* the DiffResult the latest calculate returned
    \* --- rectangle arithmetic
    overflow_checks,  \* whether the build checks integer overflow (debug) or wraps (release)
    rect_a,           \* the receiver of the latest Rectangle::merge, NoRect before the first
    rect_b,           \* its argument
    rect_merged,      \* what it returned, NoRect if it panicked
    rect_panicked,    \* whether it panicked
    \* --- the screen capturer
    cap_now,          \* Instant::now() of the capturer's clock, in milliseconds
    min_interval,     \* ScreenCapture.min_interval, in milliseconds
    last_capture,     \* ScreenCapture.last_capture, NoCapture for None
    last_capture_time,\* ScreenCapture.last_capture_time
    monitor,          \* ScreenCapture.monitor: the index of the selected monitor, -1 for None
    cap_call,         \* the latest capture_monitor call: its index and instant, and what it found
    cap_acquired,     \* whether that call asked the platform for a frame
    cap_returned,     \* the frame that call returned, NoCapture for an Err
    cap_all,          \* the frames the latest capture_all_monitors returned
    \* --- the keyboard of the operating system the commands are injected into
    os_held,          \* the key codes the OS holds down
    os_session,       \* the session whose key command the input handler executed last, 0 for none
    \* --- the viewer's network thread (client ui/window.rs)
    vw_running,       \* the network thread has connected and entered its loop
    command_queue,    \* ThreadCommunication.command_queue: the command types the UI queued
    image_data,       \* ThreadCommunication.image_data is Some
    vw_sent,          \* how many commands the thread has sent on the connection
    vw_unread,        \* the server's responses the thread has not read yet: [type, to], to = the ordinal of the command answered
    vw_request,       \* the ordinal of the RequestScreenshot the loop sent in its latest iteration, 0 for none
    vw_read,          \* the response the loop read in its latest iteration
    \* --- the network client of the viewer (client network/*_client.rs)
    cn_kind,          \* which NetworkClient it is: "tcp"|"websocket"|"webrtc"
    cn_state,         \* its ConnectionState
    cn_link,          \* stream / socket is Some; for WebRTC the connected flag
    cn_call,          \* the ConnectionInfo and the environment of its latest connect()
    cn_returned       \* what its latest connect() returned: "none"|"Ok"|"Err"

serverVars == <<running, listener, thread_control, signal, client_sessions, last_cleanup>>
ownerVars == <<ownerPc, lastCall>>
sessVars == <<authenticated, active, client_info, last_activity, last_keep_alive,
              readStart, dispatched, lastCmd, lastSent, lastInjected, lastCaptured,
              lastResult, authOk>>
clientVars == <<cl_state, cl_op, cl_await, cl_inflight, cl_wire, cl_result, cl_last_check>>
lockVars == <<mtx_capturer, mtx_injector, mtx_registry, mtx_session, poison_shared,
              poison_session, th_pc, th_cmd, th_ext, th_todo, os_events, lst_pc, lst_scan,
              faulted>>
wireVars == <<wire_c2s, wire_sent, wire_rcvd, rx_state, rx_alloc, rx_avail, codec_in,
              codec_out>>
prefVars == <<quality, shot_quality, shot_format, fmt_requested, ext_failed>>
kbVars == <<block_shortcuts, kb_call, kb_events, kb_result>>
ftVars == <<feature_file_transfer, next_transfer_id, active_transfers, fs_dirs, fs_files,
            fs_written, ft_response>>
diffVars == <<diff_config, previous, diff_before, diff_arg, diff_result>>
rectVars == <<overflow_checks, rect_a, rect_b, rect_merged, rect_panicked>>
capVars == <<cap_now, min_interval, last_capture, last_capture_time, monitor, cap_call,
             cap_acquired, cap_returned, cap_all>>
osVars == <<os_held, os_session>>
vwVars == <<vw_running, command_queue, image_data, vw_sent, vw_unread, vw_request, vw_read>>
cnVars == <<cn_kind, cn_state, cn_link, cn_call, cn_returned>>
compVars == <<kbVars, ftVars, diffVars, rectVars, capVars, osVars, vwVars, cnVars>>
unitVars == <<wireVars, prefVars, compVars>>
vars == <<transport, config, now, serverVars, ownerVars, conn, sessVars, acceptedAtFull,
          clientVars, lockVars, unitVars>>
\* everything but the separately modelled components
engineVars == <<transport, config, now, serverVars, ownerVars, conn, sessVars, acceptedAtFull,
                clientVars, lockVars, wireVars, prefVars>>
\* what the actions of one component leave alone
kbRest == <<engineVars, ftVars, diffVars, rectVars, capVars, osVars, vwVars, cnVars>>
ftRest == <<engineVars, kbVars, diffVars, rectVars, capVars, osVars, vwVars, cnVars>>
diffRest == <<engineVars, kbVars, ftVars, rectVars, capVars, osVars, vwVars, cnVars>>
rectRest == <<engineVars, kbVars, ftVars, diffVars, capVars, osVars, vwVars, cnVars>>
capRest == <<engineVars, kbVars, ftVars, diffVars, rectVars, osVars, vwVars, cnVars>>
\* key commands act on the keyboard handler and on the OS keyboard together
osRest == <<engineVars, ftVars, diffVars, rectVars, capVars, vwVars, cnVars>>
vwRest == <<engineVars, kbVars, ftVars, diffVars, rectVars, capVars, osVars, cnVars>>
cnRest == <<engineVars, kbVars, ftVars, diffVars, rectVars, capVars, osVars, vwVars>>

\* DiffConfig::default, with block_size and min_diff_size scaled to the frames
\* of the model; change_ratio_threshold is the fraction <<numerator, denominator>>
DefaultDiffConfig == [block_size |-> 2, threshold |-> 15, change_ratio_threshold |-> <<1, 20>>,
                      merge_adjacent |-> TRUE, min_diff_size |-> 1]
\* Option::None of DiffCalculator.previous
NoFrame == [width |-> 0 - 1, height |-> 0 - 1, pixels |-> [p \in {} |-> 0]]
\* no DiffResult yet
NoResult == [changed_regions |-> <<>>, changed_pixels |-> 0, total_pixels |-> 0,
             change_ratio |-> <<0, 1>>]
\* ScreenCapture::new: min_interval in milliseconds
DEFAULT_MIN_INTERVAL == 50
\* Option::None of ScreenCapture.last_capture; a frame is the monitor it was
\* acquired from and the instant of its acquisition
NoCapture == [monitor_index |-> 0 - 1, timestamp |-> 0 - 1]
\* no capture_monitor call yet
NoCaptureCall == [monitor_index |-> 0 - 1, at |-> 0 - 1, min_interval |-> 0,
                  last_capture |-> NoCapture, last_capture_time |-> 0]
\* a u32 is the pair <<high 16 bits, low 16 bits>>; no rectangle yet
NoRect == [x |-> <<0 - 1, 0>>, y |-> <<0, 0>>, width |-> <<0, 0>>, height |-> <<0, 0>>]

\* no call of the keyboard handler yet
NoCall == [op |-> "none", keys |-> <<>>, modifiers |-> <<>>, block_shortcuts |-> FALSE]

\* the two ends of a connection
Sides == {"server", "client"}
\* no value encoded or decoded yet
NoMessage == [tag |-> "None", fields |-> {}]

\* mutex owners: nobody, the listener thread, or the thread of session c (c itself)
Free == 0
Listener == 0 - 1

\* ------------------------------------------------------------- protocol
\* credentials a client may present: matching, not matching, empty
Credentials == {<<"u", "u">>, <<"u", "h">>, <<"", "">>}

NoCmd == [type |-> "None", username |-> "", password_hash |-> ""]
Cmd(t) == [type |-> t, username |-> "", password_hash |-> ""]
AuthCmd(u, p) == [type |-> "Authenticate", username |-> u, password_hash |-> p]

OtherCmdTypes == {"RequestScreenshot", "MouseMove", "Ping", "Disconnect"}
Commands == {AuthCmd(k[1], k[2]) : k \in Credentials} \cup {Cmd(t) : t \in OtherCmdTypes}

Resp(t, code, ok) == [type |-> t, code |-> code, success |-> ok]
ErrorResp(code) == Resp("Error", code, FALSE)
AuthResult(ok) == Resp("AuthResult", 0, ok)
KeepAlivePong == Resp("Pong", 0, TRUE)        \* Pong{original_timestamp = 0}
PingPong == Resp("Pong", 1, TRUE)             \* Pong{original_timestamp = ts}
ScreenshotData == Resp("ScreenshotData", 0, TRUE)
ConnectionStatus == Resp("ConnectionStatus", 0, FALSE)  \* connected = false
CommandResult == Resp("CommandResult", 0, TRUE)         \* success = true


\* -------------------------------------------------------------- helpers
\* Authenticator::authenticate
Authenticate(username, password) == username # "" /\ username = password

\* SessionInfo::idle_time
IdleTime(c) == now - last_activity[c]

\* connected_clients()
ConnectedClients == Cardinality(client_sessions)

\* Fault variant of the gate: Ping is let through like Authenticate.
RequiresAuth_PingExempt(c, cmd) ==
    cmd.type \notin {"Authenticate", "Ping"} /\ config.require_auth /\ ~authenticated[c]

\* handle_command's authentication gate: every command but Authenticate
RequiresAuth(c, cmd) ==
    cmd.type # "Authenticate" /\ config.require_auth /\ ~authenticated[c]

\* handle_command's keep-alive test
KeepAliveDue(c) == now - last_keep_alive[c] >= config.keep_alive_interval

\* What one command handler does to the session, given whether the
\* collaborator it calls (capturer / injector) succeeds:
\*   sent: responses passed to connection.send, in order
\*   ret:  "send" when the handler returns the result of its last send,
\*         "ok" when it returns Ok(()) whatever the send did
HandlerSame(c) ==
    [sent |-> <<>>, injected |-> <<>>, captured |-> 0, ret |-> "send",
     authenticated |-> authenticated[c], client_info |-> client_info[c],
     active |-> active[c], accepted |-> FALSE]

\* Fault variant: the flag is set whatever the authenticator answered.
handle_authenticate_AlwaysGrants(c, cmd) ==
    LET ok == Authenticate(cmd.username, cmd.password_hash)
    IN  [HandlerSame(c) EXCEPT !.authenticated = TRUE,
                               !.client_info = TRUE,
                               !.accepted = ok,
                               !.sent = <<AuthResult(ok)>>]

\* Fault variant: a rejected Authenticate leaves an earlier grant in place.
handle_authenticate_Sticky(c, cmd) ==
    LET ok == Authenticate(cmd.username, cmd.password_hash)
    IN  [HandlerSame(c) EXCEPT !.authenticated = (ok \/ authenticated[c]),
                               !.client_info = TRUE,
                               !.accepted = ok,
                               !.sent = <<AuthResult(ok)>>]

handle_authenticate(c, cmd) ==
    LET ok == Authenticate(cmd.username, cmd.password_hash)
    IN  [HandlerSame(c) EXCEPT !.authenticated = ok,
                               !.client_info = TRUE,
                               !.accepted = ok,
                               !.sent = <<AuthResult(ok)>>]

handle_screenshot_request(c, extOk) ==
    [HandlerSame(c) EXCEPT !.captured = 1,
                           !.sent = IF extOk THEN <<ScreenshotData>>
                                    ELSE <<ErrorResp(500)>>]

handle_mouse_move(c, cmd, extOk) ==
    [HandlerSame(c) EXCEPT !.injected = <<cmd>>,
                           !.sent = IF extOk THEN <<>> ELSE <<ErrorResp(500)>>,
                           !.ret = IF extOk THEN "ok" ELSE "send"]

\* Fault variant: a failed injection is not reported.
handle_mouse_scroll_Silent(c, cmd, extOk) ==
    [HandlerSame(c) EXCEPT !.injected = <<cmd>>, !.ret = "ok"]

\* handle_mouse_scroll, handle_key_down, handle_key_up: as handle_mouse_move
handle_mouse_scroll(c, cmd, extOk) ==
    [HandlerSame(c) EXCEPT !.injected = <<cmd>>,
                           !.sent = IF extOk THEN <<>> ELSE <<ErrorResp(500)>>,
                           !.ret = IF extOk THEN "ok" ELSE "send"]

handle_key_down(c, cmd, extOk) ==
    [HandlerSame(c) EXCEPT !.injected = <<cmd>>,
                           !.sent = IF extOk THEN <<>> ELSE <<ErrorResp(500)>>,
                           !.ret = IF extOk THEN "ok" ELSE "send"]

handle_key_up(c, cmd, extOk) ==
    [HandlerSame(c) EXCEPT !.injected = <<cmd>>,
                           !.sent = IF extOk THEN <<>> ELSE <<ErrorResp(500)>>,
                           !.ret = IF extOk THEN "ok" ELSE "send"]

\* handle_set_quality, handle_set_image_format: CommandResult{success = true}
handle_set_quality(c) == [HandlerSame(c) EXCEPT !.sent = <<CommandResult>>]

handle_set_image_format(c) == [HandlerSame(c) EXCEPT !.sent = <<CommandResult>>]

\* handle_mouse_click: CommandResult{success} on success, Error 500 otherwise
handle_mouse_click(c, cmd, extOk) ==
    [HandlerSame(c) EXCEPT !.injected = <<cmd>>,
                           !.sent = IF extOk THEN <<CommandResult>> ELSE <<ErrorResp(500)>>]

handle_ping(c) == [HandlerSame(c) EXCEPT !.sent = <<PingPong>>]

handle_disconnect(c) ==
    [HandlerSame(c) EXCEPT !.sent = <<ConnectionStatus>>,
                           !.active = FALSE,
                           !.ret = "ok"]

Handler(c, cmd, extOk) ==
    CASE cmd.type = "Authenticate" -> handle_authenticate(c, cmd)
      [] cmd.type = "RequestScreenshot" -> handle_screenshot_request(c, extOk)
      [] cmd.type = "MouseMove" -> handle_mouse_move(c, cmd, extOk)
      [] cmd.type = "MouseClick" -> handle_mouse_click(c, cmd, extOk)
      [] cmd.type = "MouseScroll" -> handle_mouse_scroll(c, cmd, extOk)
      [] cmd.type = "KeyDown" -> handle_key_down(c, cmd, extOk)
      [] cmd.type = "KeyUp" -> handle_key_up(c, cmd, extOk)
      [] cmd.type = "SetQuality" -> handle_set_quality(c)
      [] cmd.type = "SetImageFormat" -> handle_set_image_format(c)
      [] cmd.type = "Ping" -> handle_ping(c)
      [] cmd.type = "Disconnect" -> handle_disconnect(c)

SendResult(sendOk) == IF sendOk THEN "Ok" ELSE "Err"

\* ClientSession::handle_command: the gate, the keep-alive, the dispatch.
\* sendOk: whether the transport accepts writes during this call.
handle_command(c, cmd, extOk, sendOk) ==
    IF RequiresAuth(c, cmd)
    THEN [HandlerSame(c) EXCEPT !.sent = <<ErrorResp(401)>>]
            @@ [result |-> SendResult(sendOk), last_keep_alive |-> last_keep_alive[c]]
    ELSE IF KeepAliveDue(c) /\ ~sendOk
    THEN [HandlerSame(c) EXCEPT !.sent = <<KeepAlivePong>>]
            @@ [result |-> "Err", last_keep_alive |-> now]
    ELSE LET h == Handler(c, cmd, extOk)
             ka == IF KeepAliveDue(c) THEN <<KeepAlivePong>> ELSE <<>>
         IN  [h EXCEPT !.sent = ka \o h.sent]
                @@ [result |-> IF h.ret = "ok" THEN "Ok" ELSE SendResult(sendOk),
                    last_keep_alive |-> IF KeepAliveDue(c) THEN now
                                        ELSE last_keep_alive[c]]


\* ------------------------------------------------------------ initial state
\* TcpServer::new / WebSocketServer::new / WebRtcServer::new; no client yet.
Constructed ==
    /\ now = 0
    /\ running = FALSE
    /\ listener = "none"
    /\ thread_control = "None"
    /\ signal = FALSE
    /\ client_sessions = {}
    /\ last_cleanup = 0
    /\ ownerPc = "idle"
    /\ lastCall = "none"
    /\ conn = [c \in Conns |-> "new"]
    /\ authenticated = [c \in Conns |-> FALSE]
    /\ active = [c \in Conns |-> TRUE]
    /\ client_info = [c \in Conns |-> FALSE]
    /\ last_activity = [c \in Conns |-> 0]
    /\ last_keep_alive = [c \in Conns |-> 0]
    /\ readStart = [c \in Conns |-> 0]
    /\ dispatched = [c \in Conns |-> 0]
    /\ lastCmd = [c \in Conns |-> NoCmd]
    /\ lastSent = [c \in Conns |-> <<>>]
    /\ lastInjected = [c \in Conns |-> <<>>]
    /\ lastCaptured = [c \in Conns |-> 0]
    /\ lastResult = [c \in Conns |-> "None"]
    /\ authOk = [c \in Conns |-> 0]
    /\ acceptedAtFull = {}
    /\ cl_state = "Disconnected"
    /\ cl_op = "none"
    /\ cl_await = "none"
    /\ cl_inflight = NoCmd
    /\ cl_wire = <<>>
    /\ cl_result = "none"
    /\ cl_last_check = -1
    /\ mtx_capturer = Free
    /\ mtx_injector = Free
    /\ mtx_registry = Free
    /\ mtx_session = [c \in Conns |-> Free]
    /\ poison_shared = {}
    /\ poison_session = {}
    /\ th_pc = [c \in Conns |-> "idle"]
    /\ th_cmd = [c \in Conns |-> "None"]
    /\ th_ext = [c \in Conns |-> TRUE]
    /\ th_todo = [c \in Conns |-> <<>>]
    /\ os_events = <<>>
    /\ lst_pc = "loop"
    /\ lst_scan = {}
    /\ faulted = {}
    /\ wire_c2s = <<>>
    /\ wire_sent = <<>>
    /\ wire_rcvd = <<>>
    /\ rx_state = [s \in Sides |-> "idle"]
    /\ rx_alloc = [s \in Sides |-> -1]
    /\ rx_avail = [s \in Sides |-> 0]
    /\ codec_in = NoMessage
    /\ codec_out = NoMessage
    /\ quality = [c \in Conns |-> DEFAULT_QUALITY]
    /\ shot_quality = [c \in Conns |-> -1]
    /\ shot_format = [c \in Conns |-> "None"]
    /\ fmt_requested = [c \in Conns |-> "None"]
    /\ ext_failed = [c \in Conns |-> FALSE]
    /\ block_shortcuts = TRUE
    /\ kb_call = NoCall
    /\ kb_events = <<>>
    /\ kb_result = "None"
    /\ next_transfer_id = 1
    /\ active_transfers = {}
    /\ fs_dirs = {}
    /\ fs_files = {}
    /\ fs_written = {}
    /\ ft_response = "None"
    /\ previous = NoFrame
    /\ diff_before = NoFrame
    /\ diff_arg = NoFrame
    /\ diff_result = NoResult
    /\ rect_a = NoRect
    /\ rect_b = NoRect
    /\ rect_merged = NoRect
    /\ rect_panicked = FALSE
    /\ cap_now = 0
    /\ min_interval = DEFAULT_MIN_INTERVAL
    /\ last_capture = NoCapture
    /\ last_capture_time = 0
    /\ monitor = 0 - 1
    /\ cap_call = NoCaptureCall
    /\ cap_acquired = FALSE
    /\ cap_returned = NoCapture
    /\ cap_all = <<>>
    /\ os_held = {}
    /\ os_session = 0
    /\ vw_running = FALSE
    /\ command_queue = <<>>
    /\ image_data = FALSE
    /\ vw_sent = 0
    /\ vw_unread = <<>>
    /\ vw_request = 0
    /\ vw_read = [type |-> "none", to |-> 0]
    /\ cn_kind = "tcp"
    /\ cn_state = "Disconnected"
    /\ cn_link = FALSE
    /\ cn_call = [op |-> "none"]
    /\ cn_returned = "none"

\* The session engine under every transport and authentication policy; the
\* clock stands still, so a keep-alive is due only when the interval is 0.
Init ==
    /\ transport \in Transports
    /\ config \in [require_auth : BOOLEAN,
                   max_connections : {MaxConnCfg},
                   client_timeout : {20},
                   keep_alive_interval : KeepAliveIntervals]
    /\ feature_file_transfer = TRUE
    /\ diff_config = DefaultDiffConfig
    /\ overflow_checks = FALSE
    /\ Constructed

\* ------------------------------------------------------------ the owner
\* NetworkServer::start.  bind fails while an earlier listener thread of this
\* instance still owns the listening socket.
start ==
    /\ ownerPc = "idle"
    /\ IF running
       THEN /\ lastCall' = "start"
            /\ UNCHANGED <<listener, thread_control, signal>>
       ELSE IF listener \in {"spawned", "looping"}
       THEN UNCHANGED <<lastCall, listener, thread_control, signal>>
       ELSE /\ thread_control' = "Some"
            /\ signal' = FALSE
            /\ listener' = "spawned"
            /\ lastCall' = "start"
    /\ UNCHANGED <<unitVars, lockVars, clientVars, transport, config, now, running, client_sessions, last_cleanup,
                   ownerPc, conn, sessVars, acceptedAtFull>>

\* NetworkServer::stop up to the join: the early return when is_running() is
\* false, otherwise the signal is sent and the caller blocks in join.
stop ==
    /\ ownerPc = "idle"
    /\ IF ~running
       THEN /\ lastCall' = "stop"
            /\ UNCHANGED <<ownerPc, signal>>
       ELSE /\ signal' = (thread_control = "Some" \/ signal)
            /\ ownerPc' = "stopJoin"
            /\ UNCHANGED lastCall
    /\ UNCHANGED <<unitVars, lockVars, clientVars, transport, config, now, running, listener, thread_control,
                   client_sessions, last_cleanup, conn, sessVars, acceptedAtFull>>

\* NetworkServer::stop after the join returned: clear the registry, return Ok.
stop_joined ==
    /\ ownerPc = "stopJoin"
    /\ listener = "exited"
    /\ listener' = "none"
    /\ client_sessions' = {}
    /\ thread_control' = "None"
    /\ ownerPc' = "idle"
    /\ lastCall' = "stop"
    /\ UNCHANGED <<unitVars, lockVars, clientVars, transport, config, now, running, signal, last_cleanup,
                   conn, sessVars, acceptedAtFull>>

\* ----------------------------------------------------- the listener thread
\* The head of the thread closure: *running = true, last_cleanup = now.
listener_begin ==
    /\ listener = "spawned"
    /\ listener' = "looping"
    /\ running' = TRUE
    /\ last_cleanup' = now
    /\ UNCHANGED <<unitVars, lockVars, clientVars, transport, config, now, thread_control, signal, client_sessions,
                   ownerVars, conn, sessVars, acceptedAtFull>>

\* rx.try_recv() is Ok: leave the loop, *running = false, the thread ends and
\* the listening socket is dropped with its backlog.
listener_break ==
    /\ listener = "looping"
    /\ signal
    /\ signal' = FALSE
    /\ running' = FALSE
    /\ listener' = "exited"
    /\ conn' = [c \in Conns |-> IF conn[c] = "pending" THEN "closed" ELSE conn[c]]
    /\ UNCHANGED <<unitVars, lockVars, clientVars, transport, config, now, thread_control, client_sessions, last_cleanup,
                   ownerVars, sessVars, acceptedAtFull>>

\* Fault variant of the admission test: off by one.
Admit_OffByOne(session_count) == ~(session_count > config.max_connections)

\* The admission test of the accept loop.
Admit(session_count) == ~(session_count >= config.max_connections)

\* The idle sweep at the end of a loop iteration, over the registry as the
\* iteration left it (sessions, with their last_activity as of then).
SweepDue == now - last_cleanup > CLEANUP_INTERVAL
Retained(sessions, activity) ==
    {s \in sessions : now - activity[s] < config.client_timeout}
Sweep(sessions, activity) ==
    IF SweepDue
    THEN client_sessions' = Retained(sessions, activity) /\ last_cleanup' = now
    ELSE client_sessions' = sessions /\ UNCHANGED last_cleanup

\* ClientSession::new with SessionInfo::new
NewSession(c) ==
    /\ authenticated' = [authenticated EXCEPT ![c] = FALSE]
    /\ active' = [active EXCEPT ![c] = TRUE]
    /\ last_activity' = [last_activity EXCEPT ![c] = now]
    /\ last_keep_alive' = [last_keep_alive EXCEPT ![c] = now]
    /\ readStart' = [readStart EXCEPT ![c] = now]
    /\ UNCHANGED <<client_info, dispatched, lastCmd, lastSent, lastInjected,
                   lastCaptured, lastResult, authOk>>

\* One iteration of the accept loop in which accept() returns connection c.
listener_accept(c) ==
    /\ listener = "looping"
    /\ ~signal
    /\ conn[c] = "pending"
    /\ acceptedAtFull' = IF Cardinality(client_sessions) >= config.max_connections
                         THEN acceptedAtFull \cup {c} ELSE acceptedAtFull
    /\ IF ~Admit(Cardinality(client_sessions))
       THEN \* continue: the stream is dropped, the sweep is skipped
            /\ conn' = [conn EXCEPT ![c] = "rejected"]
            /\ UNCHANGED <<client_sessions, last_cleanup, sessVars>>
       ELSE IF transport = "tcp"
       THEN \* TcpServer::handle_client registers the session, then spawns
            /\ conn' = [conn EXCEPT ![c] = "serving"]
            /\ NewSession(c)
            /\ Sweep(client_sessions \cup {c}, last_activity')
       ELSE \* handle_client / handle_signaling only spawn the thread
            /\ conn' = [conn EXCEPT ![c] = "handshake"]
            /\ last_activity' = [last_activity EXCEPT ![c] = now]
            /\ Sweep(client_sessions, last_activity)
            /\ UNCHANGED <<authenticated, active, client_info, last_keep_alive, readStart,
                           dispatched, lastCmd, lastSent, lastInjected, lastCaptured,
                           lastResult, authOk>>
    /\ UNCHANGED <<unitVars, lockVars, clientVars, transport, config, now, running, listener, thread_control, signal,
                   ownerVars>>

\* One iteration in which accept() returns WouldBlock and the sweep is due.
listener_idle ==
    /\ listener = "looping"
    /\ ~signal
    /\ \A c \in Conns : conn[c] # "pending"
    /\ SweepDue
    /\ Sweep(client_sessions, last_activity)
    /\ UNCHANGED <<unitVars, lockVars, clientVars, transport, config, now, running, listener, thread_control, signal,
                   ownerVars, conn, sessVars, acceptedAtFull>>


\* ------------------------------------------------------------ the clients
\* A client connects: the connection waits in the listening socket's backlog.
\* Connection ids are handed out in order.
client_connect(c) ==
    /\ conn[c] = "new"
    /\ \A d \in Conns : d < c => conn[d] # "new"
    /\ listener \in {"spawned", "looping"}
    /\ conn' = [conn EXCEPT ![c] = "pending"]
    /\ UNCHANGED <<unitVars, lockVars, clientVars, transport, config, now, serverVars, ownerVars, sessVars, acceptedAtFull>>

\* --------------------------------------------------- the session threads
\* WebSocketServer::handle_client / WebRtcServer::setup_webrtc_connection:
\* the handshake (WebSocket accept, SDP offer/answer) succeeded; the session
\* is built and pushed into the registry.
handshake_done(c) ==
    /\ conn[c] = "handshake"
    /\ conn' = [conn EXCEPT ![c] = "serving"]
    /\ authenticated' = [authenticated EXCEPT ![c] = FALSE]
    /\ active' = [active EXCEPT ![c] = TRUE]
    /\ last_activity' = [last_activity EXCEPT ![c] =
                            IF transport = "webrtc" THEN now ELSE @]
    /\ last_keep_alive' = [last_keep_alive EXCEPT ![c] = now]
    /\ readStart' = [readStart EXCEPT ![c] = now]
    /\ client_sessions' = client_sessions \cup {c}
    /\ UNCHANGED <<unitVars, lockVars, clientVars, transport, config, now, running, listener, thread_control, signal,
                   last_cleanup, ownerVars, client_info, dispatched, lastCmd, lastSent,
                   lastInjected, lastCaptured, lastResult, authOk, acceptedAtFull>>

\* The handshake failed: the thread returns, the stream is dropped.
handshake_failed(c) ==
    /\ conn[c] = "handshake"
    /\ conn' = [conn EXCEPT ![c] = "closed"]
    /\ UNCHANGED <<unitVars, lockVars, clientVars, transport, config, now, serverVars, ownerVars, sessVars, acceptedAtFull>>

\* Fault variant: the activity stamp is left as it was.
update_activity_Stale(c) == last_activity

\* SessionInfo::update_activity, on session c
update_activity(c) == [last_activity EXCEPT ![c] = now]

\* One iteration of the session loop in which a command arrived:
\* process_data / receive_and_process (update_activity, then handle_command),
\* then the loop's exit tests (an Err result, or is_active() false).
SessionStep(c, cmd, extOk, sendOk) ==
    /\ conn[c] = "serving"
    /\ dispatched[c] < MaxCmds
    /\ LET r == handle_command(c, cmd, extOk, sendOk)
       IN  /\ last_activity' = update_activity(c)
           /\ authenticated' = [authenticated EXCEPT ![c] = r.authenticated]
           /\ client_info' = [client_info EXCEPT ![c] = r.client_info]
           /\ active' = [active EXCEPT ![c] = r.active]
           /\ last_keep_alive' = [last_keep_alive EXCEPT ![c] = r.last_keep_alive]
           /\ lastSent' = [lastSent EXCEPT ![c] = r.sent]
           /\ lastInjected' = [lastInjected EXCEPT ![c] = r.injected]
           /\ lastCaptured' = [lastCaptured EXCEPT ![c] = r.captured]
           /\ lastResult' = [lastResult EXCEPT ![c] = r.result]
           /\ authOk' = [authOk EXCEPT ![c] = IF r.accepted THEN @ + 1 ELSE @]
           /\ conn' = [conn EXCEPT ![c] =
                          IF r.result = "Err" \/ ~r.active THEN "exiting" ELSE "serving"]
    /\ lastCmd' = [lastCmd EXCEPT ![c] = cmd]
    /\ dispatched' = [dispatched EXCEPT ![c] = @ + 1]
    /\ readStart' = [readStart EXCEPT ![c] = now]
    /\ UNCHANGED <<transport, config, now, serverVars, ownerVars, acceptedAtFull>>

\* SessionStep for a command of a client whose own state is not modelled.
session_dispatch(c, cmd, extOk, sendOk) ==
    /\ SessionStep(c, cmd, extOk, sendOk)
    /\ UNCHANGED <<clientVars, lockVars, unitVars>>

\* The client closed its end: the session's read reports it and the loop ends.
peer_closed(c) ==
    /\ conn[c] = "serving"
    /\ conn' = [conn EXCEPT ![c] = "exiting"]
    /\ UNCHANGED <<unitVars, lockVars, clientVars, transport, config, now, serverVars, ownerVars, sessVars, acceptedAtFull>>

\* What the session reads when the bytes are not a Command: malformed JSON, an
\* unknown tag, or a frame cut at the end of the read buffer.
BadFrame == Cmd("Malformed")

\* One iteration of the session loop in which the bytes received are not a
\* Command: the parse fails, nothing is sent and the loop ends on the Err.
\* process_data stamps the activity before it parses; receive_and_process
\* returns from receive before the stamp.
BadFrameStep(c) ==
    /\ conn[c] = "serving"
    /\ last_activity' = IF transport = "tcp" THEN update_activity(c) ELSE last_activity
    /\ lastCmd' = [lastCmd EXCEPT ![c] = BadFrame]
    /\ lastSent' = [lastSent EXCEPT ![c] = <<>>]
    /\ lastInjected' = [lastInjected EXCEPT ![c] = <<>>]
    /\ lastCaptured' = [lastCaptured EXCEPT ![c] = 0]
    /\ lastResult' = [lastResult EXCEPT ![c] = "Err"]
    /\ conn' = [conn EXCEPT ![c] = "exiting"]
    /\ UNCHANGED <<transport, config, now, serverVars, ownerVars,
                   authenticated, active, client_info, last_keep_alive, readStart,
                   dispatched, authOk, acceptedAtFull>>

\* BadFrameStep for a client whose own state is not modelled.
session_bad_frame(c) ==
    /\ BadFrameStep(c)
    /\ UNCHANGED <<clientVars, lockVars, unitVars>>

\* The instant at which the session's pending receive gives up, per transport:
\*   tcp:    read timeout = client_timeout
\*   ws:     non-blocking read, polled every millisecond
\*   webrtc: tokio timeout of 30 s around rx.recv()
ReceiveExpired(c) ==
    CASE transport = "tcp" -> now - readStart[c] >= config.client_timeout
      [] transport = "ws" -> TRUE
      [] transport = "webrtc" -> now - readStart[c] >= WEBRTC_RECV_TIMEOUT

\* Whether the loop ends once the receive gave up.
ExitsOnTimeout(c) ==
    CASE transport = "tcp" -> IdleTime(c) > config.client_timeout
      [] transport = "ws" -> IdleTime(c) > config.client_timeout
      [] transport = "webrtc" -> TRUE

\* A step of the session loop changes the state when the receive gave up and
\* either the loop ends or a new blocking receive starts.
TimeoutPending(c) ==
    /\ conn[c] = "serving"
    /\ ReceiveExpired(c)
    /\ (ExitsOnTimeout(c) \/ readStart[c] # now)

\* One iteration of the session loop in which no command arrived in time.
session_timeout(c) ==
    /\ TimeoutPending(c)
    /\ IF ExitsOnTimeout(c)
       THEN conn' = [conn EXCEPT ![c] = "exiting"] /\ UNCHANGED readStart
       ELSE readStart' = [readStart EXCEPT ![c] = now] /\ UNCHANGED conn
    /\ UNCHANGED <<unitVars, lockVars, clientVars, transport, config, now, serverVars, ownerVars, authenticated, active,
                   client_info, last_activity, last_keep_alive, dispatched, lastCmd,
                   lastSent, lastInjected, lastCaptured, lastResult, authOk, acceptedAtFull>>

\* After the loop: the TCP and WebSocket threads remove their session from
\* the registry; the WebRTC task only logs.  Then the thread ends and the
\* session with its stream is dropped.
Deregistered(c) ==
    IF transport = "webrtc" THEN client_sessions ELSE client_sessions \ {c}

\* Fault variant: the teardown resets the session's active flag.
session_exit_Reactivates(c) ==
    /\ conn[c] = "exiting"
    /\ conn' = [conn EXCEPT ![c] = "closed"]
    /\ client_sessions' = Deregistered(c)
    /\ active' = [active EXCEPT ![c] = TRUE]
    /\ UNCHANGED <<unitVars, lockVars, clientVars, transport, config, now, running, listener, thread_control, signal,
                   last_cleanup, ownerVars, authenticated, client_info, last_activity,
                   last_keep_alive, readStart, dispatched, lastCmd, lastSent,
                   lastInjected, lastCaptured, lastResult, authOk, acceptedAtFull>>

session_exit(c) ==
    /\ conn[c] = "exiting"
    /\ conn' = [conn EXCEPT ![c] = "closed"]
    /\ client_sessions' = Deregistered(c)
    /\ UNCHANGED <<unitVars, lockVars, clientVars, transport, config, now, running, listener, thread_control, signal,
                   last_cleanup, ownerVars, sessVars, acceptedAtFull>>

\* ------------------------------------------------------------- the clock
\* No session thread has a step that is due now: the session loops wake at
\* their deadlines and leave at once when their loop has ended.
SessionsQuiet == \A c \in Conns : ~TimeoutPending(c) /\ conn[c] # "exiting"

\* Time passes only when no thread has a step that is due now: the accept
\* loop iterates every 100 ms, the session loops wake at their deadlines.
Tick ==
    /\ now + TickSecs <= MaxTime
    /\ listener # "spawned"
    /\ ~(listener = "looping" /\ (signal \/ SweepDue \/ \E c \in Conns : conn[c] = "pending"))
    /\ SessionsQuiet
    /\ now' = now + TickSecs
    /\ UNCHANGED <<unitVars, lockVars, clientVars, transport, config, serverVars, ownerVars, conn, sessVars, acceptedAtFull>>

\* TickSecs seconds of accept-loop iterations in each of which accept()
\* returns a connection while the registry is full: every iteration takes
\* the `continue`, none reaches the sweep.  c is the attempt left in the
\* backlog at the end.
listener_reject_flood(c) ==
    /\ listener = "looping"
    /\ ~signal
    /\ conn[c] = "pending"
    /\ ~Admit(Cardinality(client_sessions))
    /\ now + TickSecs <= MaxTime
    /\ SessionsQuiet
    /\ now' = now + TickSecs
    /\ UNCHANGED <<unitVars, lockVars, clientVars, transport, config, serverVars, ownerVars, conn, sessVars, acceptedAtFull>>

Next ==
    \/ start
    \/ listener_begin
    \/ \E c \in Conns : listener_accept(c)
    \/ \E c \in Conns : client_connect(c)
    \/ \E c \in Conns : handshake_done(c)
    \/ \E c \in Conns : handshake_failed(c)
    \/ \E c \in Conns, cmd \in Commands, extOk \in BOOLEAN, sendOk \in BOOLEAN :
          session_dispatch(c, cmd, extOk, sendOk)
    \/ \E c \in Conns : peer_closed(c)
    \/ \E c \in Conns : session_bad_frame(c)
    \/ \E c \in Conns : session_exit(c)

Spec == Init /\ [][Next]_vars


\* The commands the supervisor specifications let clients send: one that
\* keeps the session and the one that ends it.
ServerCommands == {Cmd("Ping"), Cmd("Disconnect")}

\* The supervisor: start, stop, admission and the registry, under every
\* transport and registry capacity, with authentication off; the clock
\* stands still.
InitServer ==
    /\ transport \in Transports
    /\ config \in [require_auth : {FALSE},
                   max_connections : 1..MaxConnCfg,
                   client_timeout : {20},
                   keep_alive_interval : {20}]
    /\ feature_file_transfer = TRUE
    /\ diff_config = DefaultDiffConfig
    /\ overflow_checks = FALSE
    /\ Constructed

NextServer ==
    \/ start
    \/ stop
    \/ stop_joined
    \/ listener_begin
    \/ listener_break
    \/ \E c \in Conns : listener_accept(c)
    \/ \E c \in Conns : client_connect(c)
    \/ \E c \in Conns : handshake_done(c)
    \/ \E c \in Conns : handshake_failed(c)
    \/ \E c \in Conns, cmd \in ServerCommands, sendOk \in BOOLEAN :
          session_dispatch(c, cmd, TRUE, sendOk)
    \/ \E c \in Conns : peer_closed(c)
    \/ \E c \in Conns : session_exit(c)

SpecServer == InitServer /\ [][NextServer]_vars

\* The server under the clock: the idle sweep and the receive timeouts,
\* under every transport and registry capacity; the server is started once
\* and not stopped, and the clients send Ping.
InitTimed ==
    /\ transport \in Transports
    /\ config \in [require_auth : {FALSE},
                   max_connections : 1..MaxConnCfg,
                   client_timeout : {20},
                   keep_alive_interval : {20}]
    /\ feature_file_transfer = TRUE
    /\ diff_config = DefaultDiffConfig
    /\ overflow_checks = FALSE
    /\ Constructed

NextTimed ==
    \/ start
    \/ listener_begin
    \/ \E c \in Conns : listener_accept(c)
    \/ \E c \in Conns : listener_reject_flood(c)
    \/ listener_idle
    \/ \E c \in Conns : client_connect(c)
    \/ \E c \in Conns : handshake_done(c)
    \/ \E c \in Conns : handshake_failed(c)
    \/ \E c \in Conns : session_dispatch(c, Cmd("Ping"), TRUE, TRUE)
    \/ \E c \in Conns : peer_closed(c)
    \/ \E c \in Conns : session_timeout(c)
    \/ \E c \in Conns : session_exit(c)
    \/ Tick

SpecTimed == InitTimed /\ [][NextTimed]_vars

\* ------------------------------------------------------- the client program
\* One client program (a NetworkClient with the UI's connection thread) at the
\* other end of connection ClientConn.  Commands and responses travel as the
\* values of Commands and Resp; their encoding is not modelled here.
ClientConn == 1

\* NetworkClient::connect, first half: state = Connecting, open the transport.
cl_connect ==
    /\ cl_state = "Disconnected"
    /\ cl_op = "none"
    /\ conn[ClientConn] = "new"
    /\ listener \in {"spawned", "looping"}
    /\ conn' = [conn EXCEPT ![ClientConn] = "pending"]
    /\ cl_state' = "Connecting"
    /\ cl_op' = "connect"
    /\ UNCHANGED <<unitVars, lockVars, transport, config, now, serverVars, ownerVars, sessVars, acceptedAtFull,
                   cl_await, cl_inflight, cl_wire, cl_result, cl_last_check>>

\* connect, once the transport is up: state = Connected; with credentials in
\* the ConnectionInfo state = Authenticating and Authenticate is sent, without
\* them the initial check_latency sends its Ping.
cl_connected(withAuth, cred) ==
    /\ cl_op = "connect"
    /\ cl_state = "Connecting"
    /\ conn[ClientConn] = "serving"
    /\ IF withAuth
       THEN /\ cl_state' = "Authenticating"
            /\ cl_inflight' = AuthCmd(cred[1], cred[2])
            /\ cl_await' = "AuthResult"
       ELSE /\ cl_state' = "Connected"
            /\ cl_inflight' = Cmd("Ping")
            /\ cl_await' = "Pong"
    /\ UNCHANGED <<unitVars, lockVars, transport, config, now, serverVars, ownerVars, conn, sessVars,
                   acceptedAtFull, cl_op, cl_wire, cl_result, cl_last_check>>

\* connect when the transport could not be set up: the error is returned by
\* `?`, the state stays Connecting.
cl_connect_refused ==
    /\ cl_op = "connect"
    /\ cl_state = "Connecting"
    /\ conn[ClientConn] \in {"rejected", "closed"}
    /\ cl_op' = "none"
    /\ cl_result' = "Err"
    /\ UNCHANGED <<unitVars, lockVars, transport, config, now, serverVars, ownerVars, conn, sessVars,
                   acceptedAtFull, cl_state, cl_await, cl_inflight, cl_wire, cl_last_check>>

\* The session reads the client's command and handles it; what it sends
\* queues up for the client.
cl_served(extOk) ==
    /\ cl_inflight # NoCmd
    /\ SessionStep(ClientConn, cl_inflight, extOk, TRUE)
    /\ cl_wire' = cl_wire \o lastSent'[ClientConn]
    /\ cl_inflight' = NoCmd
    /\ UNCHANGED <<unitVars, lockVars, cl_state, cl_op, cl_await, cl_result, cl_last_check>>

\* The receive() a client call is blocked in returns the next response:
\*   connect awaiting AuthResult, then its initial check_latency;
\*   check_latency awaiting the Pong that carries its timestamp;
\*   the connection thread awaiting ScreenshotData ("Other": the response is
\*   put on the UI's response queue as the outcome of the request).
cl_receive ==
    /\ cl_await # "none"
    /\ cl_wire # <<>>
    /\ cl_wire' = Tail(cl_wire)
    /\ LET r == Head(cl_wire)
       IN  CASE cl_await = "AuthResult" ->
                  IF r.type = "AuthResult" /\ r.success
                  THEN /\ cl_state' = "Connected"
                       /\ cl_inflight' = Cmd("Ping")
                       /\ cl_await' = "Pong"
                       /\ UNCHANGED <<cl_op, cl_result, cl_last_check>>
                  ELSE /\ cl_state' = "Error"
                       /\ cl_await' = "none"
                       /\ cl_op' = "none"
                       /\ cl_result' = "Err"
                       /\ UNCHANGED <<cl_inflight, cl_last_check>>
             [] cl_await = "Pong" ->
                  /\ cl_await' = "none"
                  /\ cl_op' = "none"
                  /\ cl_result' = IF cl_op = "connect" \/ r = PingPong THEN "Ok" ELSE "Err"
                  /\ cl_last_check' = IF r = PingPong THEN now ELSE cl_last_check
                  /\ UNCHANGED <<cl_state, cl_inflight>>
             [] cl_await = "ScreenshotData" ->
                  /\ cl_await' = "none"
                  /\ cl_op' = "none"
                  /\ cl_result' = IF r.type = "ScreenshotData" THEN "Ok" ELSE "Other"
                  /\ UNCHANGED <<cl_state, cl_inflight, cl_last_check>>
    /\ UNCHANGED <<unitVars, lockVars, transport, config, now, serverVars, ownerVars, conn, sessVars,
                   acceptedAtFull>>

\* check_latency called on a connected client: the cached value within a
\* second of the last measurement, otherwise a Ping.
cl_check_latency ==
    /\ cl_state = "Connected"
    /\ cl_op = "none"
    /\ IF cl_last_check # -1 /\ now - cl_last_check < 1
       THEN /\ cl_result' = "Ok"
            /\ UNCHANGED <<cl_op, cl_inflight, cl_await>>
       ELSE /\ cl_op' = "check_latency"
            /\ cl_inflight' = Cmd("Ping")
            /\ cl_await' = "Pong"
            /\ UNCHANGED cl_result
    /\ UNCHANGED <<unitVars, lockVars, transport, config, now, serverVars, ownerVars, conn, sessVars,
                   acceptedAtFull, cl_state, cl_wire, cl_last_check>>

\* The connection thread of the UI requests a screenshot and waits for it.
cl_request_screenshot ==
    /\ cl_state = "Connected"
    /\ cl_op = "none"
    /\ cl_result # "none"
    /\ cl_op' = "screenshot"
    /\ cl_inflight' = Cmd("RequestScreenshot")
    /\ cl_await' = "ScreenshotData"
    /\ UNCHANGED <<unitVars, lockVars, transport, config, now, serverVars, ownerVars, conn, sessVars,
                   acceptedAtFull, cl_state, cl_wire, cl_result, cl_last_check>>

\* The client program against a WebSocket server, under the clock: connect
\* with and without credentials, latency checks and screenshot requests.
InitClient ==
    /\ transport = "ws"
    /\ config \in [require_auth : BOOLEAN,
                   max_connections : {MaxConnCfg},
                   client_timeout : {20},
                   keep_alive_interval : KeepAliveIntervals]
    /\ feature_file_transfer = TRUE
    /\ diff_config = DefaultDiffConfig
    /\ overflow_checks = FALSE
    /\ Constructed

NextClient ==
    \/ start
    \/ listener_begin
    \/ \E c \in Conns : listener_accept(c)
    \/ listener_idle
    \/ \E c \in Conns : handshake_done(c)
    \/ \E c \in Conns : handshake_failed(c)
    \/ cl_connect
    \/ \E withAuth \in BOOLEAN, cred \in Credentials : cl_connected(withAuth, cred)
    \/ cl_connect_refused
    \/ \E extOk \in BOOLEAN : cl_served(extOk)
    \/ cl_receive
    \/ cl_check_latency
    \/ cl_request_screenshot
    \/ \E c \in Conns : session_timeout(c)
    \/ \E c \in Conns : session_exit(c)
    \/ Tick

SpecClient == InitClient /\ [][NextClient]_vars

\* ======================================================================
\* Claims
\* ======================================================================

\* A step in which connection c's session handles one more command.
Dispatches(c) == dispatched'[c] = dispatched[c] + 1

\* C1: a command other than Authenticate that reaches a session while
\* require_auth holds and the session is not authenticated is answered with
\* exactly one Error{401}; neither the injector nor the capturer is called
\* and the authenticated flag stays false.
C1_AuthGate ==
    [][\A c \in Conns :
         (/\ Dispatches(c)
          /\ lastCmd'[c].type # "Authenticate"
          /\ config.require_auth
          /\ ~authenticated[c])
         => /\ lastSent'[c] = <<ErrorResp(401)>>
            /\ lastInjected'[c] = <<>>
            /\ lastCaptured'[c] = 0
            /\ ~authenticated'[c]]_vars

\* A MouseMove was refused by the gate although a keep-alive was due.
C1_Witness ==
    \E c \in Conns :
        /\ config.require_auth
        /\ config.keep_alive_interval = 0
        /\ dispatched[c] = 1
        /\ lastCmd[c].type = "MouseMove"
        /\ ~authenticated[c]
        /\ lastSent[c] = <<ErrorResp(401)>>
        /\ lastInjected[c] = <<>>

\* C2 as stated: an authenticated session has processed exactly one
\* Authenticate that the authenticator accepted.
C2_ExactlyOneAccepted ==
    \A c \in Conns : authenticated[c] => authOk[c] = 1

\* C2 as amended: an authenticated session has processed at least one
\* Authenticate that the authenticator accepted.
C2_AtLeastOneAccepted ==
    \A c \in Conns : authenticated[c] => authOk[c] >= 1

\* A session that authenticated twice.
C2_Witness ==
    \E c \in Conns : authenticated[c] /\ authOk[c] = 2 /\ conn[c] = "serving"

\* A step in which c's session handles an Authenticate the authenticator rejects.
FailedAuthenticate(c) ==
    /\ Dispatches(c)
    /\ lastCmd'[c].type = "Authenticate"
    /\ ~Authenticate(lastCmd'[c].username, lastCmd'[c].password_hash)

\* C3 as stated, its state part: a rejected Authenticate leaves the session in
\* the state it was in (Handshake stays Handshake, Authenticated stays
\* Authenticated).
C3_FailedAuthKeepsState ==
    [][\A c \in Conns :
         FailedAuthenticate(c) => authenticated'[c] = authenticated[c]]_vars

\* C3 as amended: a rejected Authenticate whose responses the transport takes
\* is answered with AuthResult{success=false} (after the keep-alive Pong when
\* one is due), leaves the session unauthenticated, and keeps it active and
\* open for a retry; it never counts as an accepted Authenticate.
C3_FailedAuthUnauthenticates ==
    [][\A c \in Conns :
         FailedAuthenticate(c) =>
            /\ active'[c] = active[c]
            /\ authOk'[c] = authOk[c]
            /\ lastResult'[c] = "Ok" =>
                 /\ lastSent'[c] \in {<<AuthResult(FALSE)>>,
                                      <<KeepAlivePong, AuthResult(FALSE)>>}
                 /\ ~authenticated'[c]
                 /\ conn'[c] = "serving"]_vars

\* An authenticated session fell back to unauthenticated on a rejected
\* Authenticate and is still served.
C3_Witness ==
    \E c \in Conns :
        /\ authOk[c] = 1
        /\ dispatched[c] = 2
        /\ lastCmd[c] = AuthCmd("u", "h")
        /\ lastSent[c] = <<AuthResult(FALSE)>>
        /\ ~authenticated[c]
        /\ active[c]
        /\ conn[c] = "serving"


\* C4 as stated: the registry never holds more than max_connections sessions.
C4_RegistryBounded ==
    ConnectedClients <= config.max_connections

\* C5: a connection accepted while the registry holds max_connections
\* sessions is dropped: it never gets a session, none of its commands is
\* dispatched, and the accepting step leaves the registry as it was.
C5_RejectedAtCapacity ==
    [][\A c \in Conns :
         /\ c \in acceptedAtFull' =>
               /\ conn'[c] = "rejected"
               /\ c \notin client_sessions'
               /\ dispatched'[c] = 0
         /\ (c \in acceptedAtFull' /\ c \notin acceptedAtFull) =>
               client_sessions' = client_sessions]_vars

\* A connection was turned away while the registry was full.
C5_Witness ==
    \E c \in acceptedAtFull :
        /\ conn[c] = "rejected"
        /\ ConnectedClients = config.max_connections

\* C6 as stated, up to the clock's resolution: while the accept loop runs,
\* the latest sweep (or the start of the loop) is never more than 30 s and
\* one clock tick back.
C6_SweepEvery30s ==
    listener = "looping" => now - last_cleanup <= CLEANUP_INTERVAL + TickSecs

\* C7 as stated: a session that has been removed from the registry while
\* its task was still serving dispatches no further command.
C7_RemovedThenReleased ==
    [][\A c \in Conns :
         (conn[c] = "serving" /\ c \notin client_sessions) => ~Dispatches(c)]_vars

\* C8 as stated: once a stop() has returned (and no start() since), the
\* running flag is false.
C8_StoppedNotRunning ==
    lastCall = "stop" => ~running

\* C9 as stated, for a stop() that went through the shutdown: after it has
\* returned no session dispatches a command any more.
C9_NoDispatchAfterStop ==
    [][(lastCall = "stop" /\ listener = "none" /\ ownerPc = "idle")
         => dispatched' = dispatched]_vars

\* C10 as stated: a stop() called after a stop() has returned (no start()
\* between) finds nothing to shut down: it does not get to signal and join,
\* and it leaves the running flag and the registry as they were.
C10_StopIdempotent ==
    [][(lastCall = "stop" /\ ownerPc = "idle" /\ lastCall' = "stop")
         => (ownerPc' = "idle" /\ signal' = signal)]_vars

\* C11: once a session's active flag is false, no step of any thread sets it
\* to true again.
C11_NeverReactivated ==
    [][\A c \in Conns : ~active[c] => ~active'[c]]_vars

\* A session that processed Disconnect has ended and is still inactive.
C11_Witness ==
    \E c \in Conns :
        /\ ~active[c]
        /\ lastCmd[c].type = "Disconnect"
        /\ conn[c] = "closed"

\* C12 as stated, its registry part: once the task of a session that processed
\* Disconnect has ended, the registry no longer holds the session.
C12_DisconnectLeavesRegistry ==
    \A c \in Conns :
        (lastCmd[c].type = "Disconnect" /\ ~active[c] /\ conn[c] = "closed")
            => c \notin client_sessions

LastSpoke(c) ==
    IF dispatched[c] > 0 /\ last_activity[c] > last_keep_alive[c]
    THEN last_activity[c]
    ELSE last_keep_alive[c]

\* C14 as stated, up to the clock's resolution: a session that is being served
\* is never silent for more than keep_alive_interval seconds and one clock
\* tick, whether or not its client sends commands.
C14_KeepAliveWhenSilent ==
    \A c \in Conns :
        conn[c] = "serving" =>
            now - LastSpoke(c) <= config.keep_alive_interval + TickSecs

\* A step in which the client's pending receive() returns a keep-alive Pong.
ReceivesKeepAlive ==
    /\ cl_await # "none"
    /\ cl_wire # <<>>
    /\ Head(cl_wire) = KeepAlivePong
    /\ cl_wire' = Tail(cl_wire)

\* C15 as stated: a keep-alive Pong read while the client awaits an answer
\* leaves it awaiting that answer: the state does not become Error, the call
\* in progress does not fail and is not completed by the keep-alive.
C15_KeepAliveTolerated ==
    [][ReceivesKeepAlive =>
          /\ cl_state' # "Error"
          /\ cl_result' = cl_result
          /\ cl_await' = cl_await
          /\ cl_op' = cl_op]_vars

\* ---------------------------------------------------------------------------
\* The mutexes.  The TCP server's listener and session threads at the grain of
\* their lock operations.  The clock stands still here, so the instant at which
\* the 30 s between two sweeps have elapsed is left open.
\* ---------------------------------------------------------------------------
MaxFaults == 1       \* panics raised inside session tasks

\* Commands the session threads handle in this specification
LockCommands == {"RequestScreenshot", "MouseClick", "Ping"}

\* MouseHandler::click: button_down, sleep 10 ms, button_up
ClickEvents == <<"down", "up">>

\* Fault variant: the injector is entered without waiting for its mutex.
InjectorAvailable_NoMutex == TRUE

\* self.input_handler.lock(): the calling thread waits until the mutex is free
InjectorAvailable == mtx_injector = Free

\* self.screen_capture.lock(): the calling thread waits until the mutex is free
CapturerAvailable == mtx_capturer = Free

lockRest == <<transport, config, now, serverVars, ownerVars, conn, sessVars, acceptedAtFull,
              clientVars, unitVars>>

\* A panic in the thread of session c: unwinding drops the guards the thread
\* holds, which poisons their mutexes; the thread is gone.
th_unwind(c) ==
    /\ th_pc' = [th_pc EXCEPT ![c] = "dead"]
    /\ poison_shared' = poison_shared
                         \cup (IF mtx_capturer = c THEN {"capturer"} ELSE {})
                         \cup (IF mtx_injector = c THEN {"injector"} ELSE {})
    /\ poison_session' = IF mtx_session[c] = c THEN poison_session \cup {c}
                          ELSE poison_session
    /\ mtx_session' = [mtx_session EXCEPT ![c] = IF @ = c THEN Free ELSE @]
    /\ mtx_capturer' = IF mtx_capturer = c THEN Free ELSE mtx_capturer
    /\ mtx_injector' = IF mtx_injector = c THEN Free ELSE mtx_injector
    /\ th_todo' = [th_todo EXCEPT ![c] = <<>>]
    /\ conn' = [conn EXCEPT ![c] = "closed"]
    /\ UNCHANGED <<transport, config, now, serverVars, ownerVars, sessVars, acceptedAtFull,
                   clientVars, unitVars, mtx_registry, th_cmd, th_ext, os_events, lst_pc, lst_scan>>

\* stream.read returned a command of type t: session.lock(), then process_data
th_begin(c, t) ==
    /\ conn[c] = "serving"
    /\ th_pc[c] = "idle"
    /\ dispatched[c] < MaxCmds
    /\ mtx_session[c] = Free
    /\ mtx_session' = [mtx_session EXCEPT ![c] = c]
    /\ th_pc' = [th_pc EXCEPT ![c] = "locked"]
    /\ th_cmd' = [th_cmd EXCEPT ![c] = t]
    /\ th_ext' = [th_ext EXCEPT ![c] = TRUE]
    /\ UNCHANGED <<lockRest, mtx_capturer, mtx_injector, mtx_registry, poison_shared,
                   poison_session, th_todo, os_events, lst_pc, lst_scan, faulted>>

\* take_screenshot: screen_capture.lock().unwrap()
shot_lock(c) ==
    /\ th_pc[c] = "locked"
    /\ th_cmd[c] = "RequestScreenshot"
    /\ CapturerAvailable
    /\ IF "capturer" \in poison_shared
       THEN th_unwind(c) /\ UNCHANGED faulted
       ELSE /\ mtx_capturer' = c
            /\ th_pc' = [th_pc EXCEPT ![c] = "cap_locked"]
            /\ UNCHANGED <<lockRest, mtx_injector, mtx_registry, mtx_session, poison_shared,
                           poison_session, th_cmd, th_ext, th_todo, os_events, lst_pc,
                           lst_scan, faulted>>

\* take_screenshot: the capture call (and the resize); an Err returns through ?
shot_capture(c, ok) ==
    /\ th_pc[c] = "cap_locked"
    /\ IF ok
       THEN /\ th_pc' = [th_pc EXCEPT ![c] = "encoding"]
            /\ UNCHANGED <<mtx_capturer, th_ext>>
       ELSE /\ th_pc' = [th_pc EXCEPT ![c] = "sending"]
            /\ mtx_capturer' = Free
            /\ th_ext' = [th_ext EXCEPT ![c] = FALSE]
    /\ UNCHANGED <<lockRest, mtx_injector, mtx_registry, mtx_session, poison_shared,
                   poison_session, th_cmd, th_todo, os_events, lst_pc, lst_scan, faulted>>

\* take_screenshot: screen_capture.encode returns; the guard is dropped when
\* take_screenshot returns
shot_encode(c, ok) ==
    /\ th_pc[c] = "encoding"
    /\ th_pc' = [th_pc EXCEPT ![c] = "sending"]
    /\ mtx_capturer' = Free
    /\ th_ext' = [th_ext EXCEPT ![c] = ok]
    /\ UNCHANGED <<lockRest, mtx_injector, mtx_registry, mtx_session, poison_shared,
                   poison_session, th_cmd, th_todo, os_events, lst_pc, lst_scan, faulted>>

\* handle_mouse_click: input_handler.lock().unwrap(), then handle_command
inj_lock(c) ==
    /\ th_pc[c] = "locked"
    /\ th_cmd[c] = "MouseClick"
    /\ InjectorAvailable
    /\ IF "injector" \in poison_shared
       THEN th_unwind(c) /\ UNCHANGED faulted
       ELSE /\ mtx_injector' = c
            /\ th_pc' = [th_pc EXCEPT ![c] = "inj_locked"]
            /\ th_todo' = [th_todo EXCEPT ![c] = ClickEvents]
            /\ UNCHANGED <<lockRest, mtx_capturer, mtx_registry, mtx_session, poison_shared,
                           poison_session, th_cmd, th_ext, os_events, lst_pc, lst_scan,
                           faulted>>

\* MouseHandler::click: the next OS event of the command; an Err returns
inj_event(c, ok) ==
    /\ th_pc[c] = "inj_locked"
    /\ th_todo[c] # <<>>
    /\ IF ok
       THEN /\ os_events' = Append(os_events, <<c, dispatched[c], Head(th_todo[c])>>)
            /\ th_todo' = [th_todo EXCEPT ![c] = Tail(@)]
            /\ UNCHANGED th_ext
       ELSE /\ th_todo' = [th_todo EXCEPT ![c] = <<>>]
            /\ th_ext' = [th_ext EXCEPT ![c] = FALSE]
            /\ UNCHANGED os_events
    /\ UNCHANGED <<lockRest, mtx_capturer, mtx_injector, mtx_registry, mtx_session,
                   poison_shared, poison_session, th_pc, th_cmd, lst_pc, lst_scan, faulted>>

\* handle_mouse_click: handle_command returned, the guard is dropped
inj_unlock(c) ==
    /\ th_pc[c] = "inj_locked"
    /\ th_todo[c] = <<>>
    /\ mtx_injector' = IF mtx_injector = c THEN Free ELSE mtx_injector
    /\ th_pc' = [th_pc EXCEPT ![c] = "sending"]
    /\ UNCHANGED <<lockRest, mtx_capturer, mtx_registry, mtx_session, poison_shared,
                   poison_session, th_cmd, th_ext, th_todo, os_events, lst_pc, lst_scan,
                   faulted>>

\* handle_ping takes no shared mutex
th_ping(c) ==
    /\ th_pc[c] = "locked"
    /\ th_cmd[c] = "Ping"
    /\ th_pc' = [th_pc EXCEPT ![c] = "sending"]
    /\ UNCHANGED <<lockRest, mtx_capturer, mtx_injector, mtx_registry, mtx_session,
                   poison_shared, poison_session, th_cmd, th_ext, th_todo, os_events,
                   lst_pc, lst_scan, faulted>>

\* connection.send returned (the write blocks for up to 30 s on a client that
\* does not read); process_data returns and the session guard is dropped.
th_end(c, sendOk) ==
    /\ th_pc[c] = "sending"
    /\ SessionStep(c, Cmd(th_cmd[c]), th_ext[c], sendOk)
    /\ mtx_session' = [mtx_session EXCEPT ![c] = Free]
    /\ th_pc' = [th_pc EXCEPT ![c] = "idle"]
    /\ UNCHANGED <<clientVars, unitVars, mtx_capturer, mtx_injector, mtx_registry, poison_shared,
                   poison_session, th_cmd, th_ext, th_todo, os_events, lst_pc, lst_scan,
                   faulted>>

\* A panic raised inside the task of session c while it handles a command
th_panic(c) ==
    /\ th_pc[c] \in {"locked", "cap_locked", "encoding", "inj_locked"}
    /\ Cardinality(faulted) < MaxFaults
    /\ faulted' = faulted \cup {c}
    /\ th_unwind(c)

\* After the loop: client_sessions.lock(), then retain locks every session
th_exit(c) ==
    /\ th_pc[c] = "idle"
    /\ mtx_registry = Free
    /\ "registry" \notin poison_shared
    /\ \A d \in client_sessions : mtx_session[d] = Free /\ d \notin poison_session
    /\ session_exit(c)

\* After the loop, with a poisoned mutex in the way: the unwrap panics, and
\* inside retain it does so with the registry guard held.
th_exit_poisoned(c) ==
    /\ th_pc[c] = "idle"
    /\ conn[c] = "exiting"
    /\ mtx_registry = Free
    /\ \/ "registry" \in poison_shared
       \/ \E d \in client_sessions : mtx_session[d] = Free /\ d \in poison_session
    /\ poison_shared' = poison_shared \cup {"registry"}
    /\ th_pc' = [th_pc EXCEPT ![c] = "dead"]
    /\ conn' = [conn EXCEPT ![c] = "closed"]
    /\ UNCHANGED <<transport, config, now, serverVars, ownerVars, sessVars, acceptedAtFull,
                   clientVars, unitVars, mtx_capturer, mtx_injector, mtx_registry, mtx_session,
                   poison_session, th_cmd, th_ext, th_todo, os_events, lst_pc, lst_scan,
                   faulted>>

\* The accept loop takes a connection: client_sessions.lock() for the count
lk_accept(c) ==
    /\ lst_pc = "loop"
    /\ mtx_registry = Free
    /\ "registry" \notin poison_shared
    /\ listener_accept(c)

\* The sweep: client_sessions.lock().unwrap()
sweep_begin ==
    /\ listener = "looping"
    /\ ~signal
    /\ lst_pc = "loop"
    /\ mtx_registry = Free
    /\ client_sessions # {}
    /\ IF "registry" \in poison_shared
       THEN lst_pc' = "dead" /\ UNCHANGED <<mtx_registry, lst_scan>>
       ELSE /\ mtx_registry' = Listener
            /\ lst_pc' = "sweep"
            /\ lst_scan' = client_sessions
    /\ UNCHANGED <<lockRest, mtx_capturer, mtx_injector, mtx_session, poison_shared,
                   poison_session, th_pc, th_cmd, th_ext, th_todo, os_events, faulted>>

\* The sweep: retain's closure on session c, session.lock().unwrap(); the
\* listener waits while the session's thread holds the mutex, and panics with
\* the registry guard held when the mutex is poisoned.
sweep_visit(c) ==
    /\ lst_pc = "sweep"
    /\ c \in lst_scan
    /\ mtx_session[c] = Free
    /\ IF c \in poison_session
       THEN /\ lst_pc' = "dead"
            /\ mtx_registry' = Free
            /\ poison_shared' = poison_shared \cup {"registry"}
            /\ lst_scan' = {}
       ELSE /\ lst_scan' = lst_scan \ {c}
            /\ UNCHANGED <<lst_pc, mtx_registry, poison_shared>>
    /\ UNCHANGED <<lockRest, mtx_capturer, mtx_injector, mtx_session, poison_session,
                   th_pc, th_cmd, th_ext, th_todo, os_events, faulted>>

\* The sweep: retain returns, last_cleanup is reset, the guard is dropped
sweep_end ==
    /\ lst_pc = "sweep"
    /\ lst_scan = {}
    /\ client_sessions' = Retained(client_sessions, last_activity)
    /\ last_cleanup' = now
    /\ mtx_registry' = Free
    /\ lst_pc' = "loop"
    /\ UNCHANGED <<transport, config, now, running, listener, thread_control, signal,
                   ownerVars, conn, sessVars, acceptedAtFull, clientVars, unitVars,
                   mtx_capturer,
                   mtx_injector, mtx_session, poison_shared, poison_session, th_pc, th_cmd,
                   th_ext, th_todo, os_events, lst_scan, faulted>>

InitLocks ==
    /\ transport = "tcp"
    /\ config = [require_auth |-> FALSE,
                 max_connections |-> MaxConnCfg,
                 client_timeout |-> 20,
                 keep_alive_interval |-> 20]
    /\ feature_file_transfer = TRUE
    /\ diff_config = DefaultDiffConfig
    /\ overflow_checks = FALSE
    /\ Constructed

NextLocks ==
    \/ start
    \/ listener_begin
    \/ \E c \in Conns : client_connect(c)
    \/ \E c \in Conns : lk_accept(c)
    \/ \E c \in Conns, t \in LockCommands : th_begin(c, t)
    \/ \E c \in Conns : shot_lock(c)
    \/ \E c \in Conns, ok \in BOOLEAN : shot_capture(c, ok)
    \/ \E c \in Conns, ok \in BOOLEAN : shot_encode(c, ok)
    \/ \E c \in Conns : inj_lock(c)
    \/ \E c \in Conns, ok \in BOOLEAN : inj_event(c, ok)
    \/ \E c \in Conns : inj_unlock(c)
    \/ \E c \in Conns : th_ping(c)
    \/ \E c \in Conns, sendOk \in BOOLEAN : th_end(c, sendOk)
    \/ \E c \in Conns : th_panic(c)
    \/ \E c \in Conns : th_exit(c)
    \/ \E c \in Conns : th_exit_poisoned(c)
    \/ sweep_begin
    \/ \E c \in Conns : sweep_visit(c)
    \/ sweep_end

SpecLocks == InitLocks /\ [][NextLocks]_vars

\* ---------------------------------------------------------------------------
\* Claims about the mutexes
\* ---------------------------------------------------------------------------

\* C16: no session thread holds the capturer's mutex while it encodes a frame:
\* the mutex is released once the capture call has returned the frame.
C16_EncodesWithoutCapturerLock ==
    \A c \in Conns : th_pc[c] = "encoding" => mtx_capturer # c

\* The two events come from the same input command
SameCommand(a, b) == a[1] = b[1] /\ a[2] = b[2]

\* C17: the OS events of one input command reach the OS as one run: no event
\* of another session's command lies between two events of the same command.
C17_InputCommandsAtomic ==
    \A i \in 1..Len(os_events), k \in 1..Len(os_events) :
        (i < k /\ SameCommand(os_events[i], os_events[k]))
            => \A j \in i..k : SameCommand(os_events[i], os_events[j])

\* Two sessions clicked, one of them while the other waited for the injector.
C17_Witness ==
    /\ Len(os_events) >= 2 * Len(ClickEvents)
    /\ \E i \in 1..Len(os_events), k \in 1..Len(os_events) : os_events[i][1] # os_events[k][1]
    /\ \E c \in Conns : th_pc[c] = "locked" /\ th_cmd[c] = "MouseClick" /\ mtx_injector \notin {Free, c}

\* C18: the registry's mutex is never held by a thread that is waiting, directly
\* or through a session's mutex, on a client's transport: the sweep is never
\* stuck with the registry guard behind a session that is blocked in a send.
C18_RegistryNotHeldWhileWaiting ==
    ~ /\ mtx_registry = Listener
      /\ lst_scan # {}
      /\ \A d \in lst_scan : mtx_session[d] # Free
      /\ \E c \in lst_scan : mtx_session[c] = c /\ th_pc[c] = "sending"

\* C19: a panic inside one session's task, whatever mutex the task holds at
\* that moment, ends no other session's thread and does not end the accept loop.
C19_PanicContained ==
    /\ \A d \in Conns : th_pc[d] = "dead" => d \in faulted
    /\ lst_pc # "dead"

\* C20: a protocol error is answered with Error{code = 400} and the session
\* stays open.
C20_ProtocolErrorAnswered ==
    [][\A c \in Conns :
          (lastCmd[c] # BadFrame /\ lastCmd'[c] = BadFrame)
              => (lastSent'[c] = <<ErrorResp(400)>> /\ conn'[c] = "serving")]_vars

\* ---------------------------------------------------------------------------
\* The wire: the TCP byte stream between the client program and the server, and
\* the JSON codec of the two peers.  A value on the wire is a variant tag with
\* a set of <<field name, value>> pairs; field values are small integers.
\* ---------------------------------------------------------------------------
READ_BUFFER == 4096      \* bytes one read of the TCP session loop asks for
PREFIX_LEN == 4          \* bytes of the length prefix
NULL == 0 - 1            \* JSON null, what serde writes for None

Msg(t, fs) == [tag |-> t, fields |-> fs]
FieldNames(m) == {p[1] : p \in m.fields}
DecodeError == Msg("DecodeError", {})

\* client/src/network/protocol.rs, enum Command: the values the client encodes
ClientCommands ==
    {Msg("Authenticate", {<<"username", 1>>, <<"password", 1>>}),
     Msg("RequestScreenshot", {<<"quality", 80>>, <<"width", NULL>>, <<"height", NULL>>,
                               <<"monitor", NULL>>}),
     Msg("MouseClick", {<<"button", 1>>, <<"double", 0>>}),
     Msg("MouseScroll", {<<"delta_x", 0>>, <<"delta_y", 1>>}),
     Msg("KeyDown", {<<"key", 1>>}),
     Msg("KeyUp", {<<"key", 1>>}),
     Msg("KeyPress", {<<"key", 1>>}),
     Msg("KeyCombo", {<<"keys", 1>>}),
     Msg("SetQuality", {<<"quality", 50>>}),
     Msg("RunApplication", {<<"command", 1>>}),
     Msg("Ping", {<<"timestamp", 1>>}),
     Msg("Disconnect", {})}
    \cup {Msg("MouseMove", {<<"x", x>>, <<"y", y>>}) : x \in {0, 1}, y \in {0, 1}}

\* common/src/protocol.rs, enum Command: per variant the fields serde requires
\* and the Option fields it fills with None when they are missing
ServerCommandTags ==
    {"Authenticate", "RequestScreenshot", "MouseMove", "MouseClick", "MouseDown",
     "MouseUp", "MouseScroll", "KeyDown", "KeyUp", "TextInput", "KeyCombo", "SetQuality",
     "SetImageFormat", "SetFps", "RunApplication", "RequestSystemInfo",
     "RequestClipboardContent", "SetClipboardContent", "StartFileTransfer", "FileData",
     "Ping", "Disconnect"}
ServerCommandRequired(t) ==
    CASE t = "Authenticate" -> {"username", "password_hash", "client_info"}
      [] t = "MouseMove" -> {"x", "y"}
      [] t = "MouseClick" -> {"button", "double"}
      [] t \in {"MouseDown", "MouseUp"} -> {"button"}
      [] t = "MouseScroll" -> {"delta_x", "delta_y"}
      [] t \in {"KeyDown", "KeyUp"} -> {"key_code", "modifiers"}
      [] t = "TextInput" -> {"text"}
      [] t = "KeyCombo" -> {"key_codes", "modifiers"}
      [] t = "SetQuality" -> {"quality"}
      [] t = "SetImageFormat" -> {"format"}
      [] t = "SetFps" -> {"fps"}
      [] t = "RunApplication" -> {"command"}
      [] t = "SetClipboardContent" -> {"content"}
      [] t = "StartFileTransfer" -> {"filename", "size", "checksum"}
      [] t = "FileData" -> {"transfer_id", "data", "offset"}
      [] t = "Ping" -> {"timestamp"}
      [] OTHER -> {}
ServerCommandOptional(t) ==
    IF t = "RequestScreenshot" THEN {"quality", "width", "height", "monitor"} ELSE {}

\* common/src/protocol.rs, enum Response: the values the server encodes
ServerResponses ==
    {Msg("AuthResult", {<<"success", s>>, <<"message", 1>>}) : s \in {0, 1}}
    \cup {Msg("ScreenshotData", {<<"data", 1>>, <<"format", 1>>, <<"width", 2>>,
                                 <<"height", 2>>, <<"timestamp", 1>>}),
          Msg("CommandResult", {<<"success", 1>>, <<"message", 1>>, <<"data", NULL>>}),
          Msg("CommandResult", {<<"success", 1>>, <<"message", 1>>, <<"data", 1>>}),
          Msg("SystemInfo", {<<"cpu_model", 1>>, <<"cpu_usage", 1>>, <<"total_memory", 1>>,
                             <<"used_memory", 1>>, <<"os_version", 1>>, <<"hostname", 1>>,
                             <<"uptime", 1>>}),
          Msg("ClipboardContent", {<<"content", 1>>}),
          Msg("FileTransferStatus", {<<"transfer_id", 1>>, <<"success", 1>>,
                                     <<"message", 1>>, <<"progress", 1>>,
                                     <<"total_size", 1>>}),
          Msg("ConnectionStatus", {<<"connected", 0>>, <<"message", 1>>}),
          Msg("Pong", {<<"original_timestamp", 1>>, <<"server_time", 1>>}),
          Msg("Error", {<<"code", 500>>, <<"message", 1>>})}

\* client/src/network/protocol.rs, enum Response: the variants the client knows
ClientResponseTags == {"AuthResult", "ScreenshotData", "CommandResult", "Pong", "Error"}
ClientResponseRequired(t) ==
    CASE t \in {"AuthResult", "CommandResult"} -> {"success", "message"}
      [] t = "ScreenshotData" -> {"data", "format", "width", "height", "timestamp"}
      [] t = "Pong" -> {"original_timestamp", "server_time"}
      [] t = "Error" -> {"code", "message"}
      [] OTHER -> {}

\* serde_json::to_vec of an externally tagged enum: the variant name with an
\* object of all its fields, None written as null
Encode(m) == [variant |-> m.tag, object |-> m.fields]

\* serde_json::from_slice into an enum: the variant has to be known and every
\* required field present; unknown fields are skipped, missing Option fields
\* become None
Decode(j, tags, required, optional) ==
    IF j.variant \notin tags THEN DecodeError
    ELSE IF \E f \in required : f \notin {p[1] : p \in j.object} THEN DecodeError
    ELSE Msg(j.variant,
             {p \in j.object : p[1] \in required \cup optional}
             \cup {<<f, NULL>> : f \in {g \in optional : g \notin {p[1] : p \in j.object}}})

\* the server's decoder of Commands, the client's decoder of Responses
DecodeCommand(j) ==
    Decode(j, ServerCommandTags, ServerCommandRequired(j.variant),
           ServerCommandOptional(j.variant))
DecodeResponse(j) == Decode(j, ClientResponseTags, ClientResponseRequired(j.variant), {})

\* The client encodes command x and the server decodes it.
codec_command(x) ==
    /\ codec_in' = x
    /\ codec_out' = DecodeCommand(Encode(x))
    /\ UNCHANGED <<transport, config, now, serverVars, ownerVars, conn, sessVars,
                   acceptedAtFull, clientVars, lockVars, compVars, prefVars, wire_c2s, wire_sent, wire_rcvd,
                   rx_state, rx_alloc, rx_avail>>

\* The server encodes response y and the client decodes it.
codec_response(y) ==
    /\ codec_in' = y
    /\ codec_out' = DecodeResponse(Encode(y))
    /\ UNCHANGED <<transport, config, now, serverVars, ownerVars, conn, sessVars,
                   acceptedAtFull, clientVars, lockVars, compVars, prefVars, wire_c2s, wire_sent, wire_rcvd,
                   rx_state, rx_alloc, rx_avail>>

\* Length prefixes a peer may put on the stream (u32, big-endian; the largest
\* one here is 2^31 - 1)
PrefixValues == {0, 2, 16777216, 16777217, 2147483647}

\* receive_message up to the allocation: read_exact of the 4 prefix bytes,
\* len = u32::from_be_bytes, vec![0u8; len].  The peer has written `avail`
\* payload bytes after the prefix.
receive_message_prefix(s, len, avail) ==
    /\ conn[ClientConn] \in {"pending", "serving"}
    /\ rx_state[s] = "idle"
    /\ avail \in {0, len}
    /\ rx_alloc' = [rx_alloc EXCEPT ![s] = len]
    /\ rx_avail' = [rx_avail EXCEPT ![s] = avail]
    /\ rx_state' = [rx_state EXCEPT ![s] = "payload"]
    /\ UNCHANGED <<transport, config, now, serverVars, ownerVars, conn, sessVars,
                   acceptedAtFull, clientVars, lockVars, compVars, prefVars, wire_c2s, wire_sent, wire_rcvd,
                   codec_in, codec_out>>

\* receive_message after the allocation: read_exact of the payload returns the
\* buffer when all its bytes came, and an Err when the stream ended or the
\* read timed out before that.
receive_message_payload(s) ==
    /\ rx_state[s] = "payload"
    /\ rx_state' = [rx_state EXCEPT ![s] =
                       IF rx_avail[s] = rx_alloc[s] THEN "Ok" ELSE "Err"]
    /\ UNCHANGED <<transport, config, now, serverVars, ownerVars, conn, sessVars,
                   acceptedAtFull, clientVars, lockVars, compVars, prefVars, wire_c2s, wire_sent, wire_rcvd,
                   rx_alloc, rx_avail, codec_in, codec_out>>

\* The caller took the message; the next receive_message starts.
receive_message_next(s) ==
    /\ rx_state[s] = "Ok"
    /\ rx_state' = [rx_state EXCEPT ![s] = "idle"]
    /\ rx_alloc' = [rx_alloc EXCEPT ![s] = -1]
    /\ rx_avail' = [rx_avail EXCEPT ![s] = 0]
    /\ UNCHANGED <<transport, config, now, serverVars, ownerVars, conn, sessVars,
                   acceptedAtFull, clientVars, lockVars, compVars, prefVars, wire_c2s, wire_sent, wire_rcvd,
                   codec_in, codec_out>>

\* Commands the client puts on the TCP stream in this specification
StreamCommands ==
    <<Msg("Ping", {<<"timestamp", 1>>}), Msg("MouseMove", {<<"x", 0>>, <<"y", 1>>})>>

\* serde_json::to_vec(command): the JSON text, here two bytes per command
JsonBytes(i) == <<10 * i + 1, 10 * i + 2>>

\* TcpClient::send_message: the 4-byte big-endian length, then the data
Frame(data) == <<0, 0, 0, Len(data)>> \o data

\* The session's view of a decoded command
ToCmd(m) == Cmd(m.tag)

\* TcpClient::send: serialize, then send_message
send_message(i) ==
    /\ conn[ClientConn] \in {"pending", "serving"}
    /\ Len(wire_sent) < MaxCmds
    /\ wire_sent' = Append(wire_sent, StreamCommands[i])
    /\ wire_c2s' = wire_c2s \o Frame(JsonBytes(i))
    /\ UNCHANGED <<transport, config, now, serverVars, ownerVars, conn, sessVars,
                   acceptedAtFull, clientVars, lockVars, compVars, prefVars, wire_rcvd, rx_state, rx_alloc,
                   rx_avail, codec_in, codec_out>>

\* serde_json::from_slice(data) in process_data: the bytes have to be the
\* whole JSON text of one command
ParsesAs(data, i) == data = JsonBytes(i) /\ DecodeCommand(Encode(StreamCommands[i])) # DecodeError

\* One iteration of the TCP session loop: stream.read returns the next n bytes
\* of the stream, process_data parses them as one command.
handle_client_read(n) ==
    /\ conn[ClientConn] = "serving"
    /\ n \in 1..Len(wire_c2s)
    /\ n <= READ_BUFFER
    /\ wire_c2s' = SubSeq(wire_c2s, n + 1, Len(wire_c2s))
    /\ LET data == SubSeq(wire_c2s, 1, n)
       IN  IF \E i \in DOMAIN StreamCommands : ParsesAs(data, i)
           THEN LET i == CHOOSE k \in DOMAIN StreamCommands : ParsesAs(data, k)
                IN  /\ SessionStep(ClientConn, ToCmd(StreamCommands[i]), TRUE, TRUE)
                    /\ wire_rcvd' = Append(wire_rcvd, StreamCommands[i])
           ELSE /\ BadFrameStep(ClientConn)
                /\ UNCHANGED wire_rcvd
    /\ UNCHANGED <<clientVars, lockVars, compVars, prefVars, wire_sent, rx_state, rx_alloc, rx_avail, codec_in,
                   codec_out>>

InitWire ==
    /\ transport = "tcp"
    /\ config = [require_auth |-> FALSE,
                 max_connections |-> MaxConnCfg,
                 client_timeout |-> 20,
                 keep_alive_interval |-> 20]
    /\ feature_file_transfer = TRUE
    /\ diff_config = DefaultDiffConfig
    /\ overflow_checks = FALSE
    /\ Constructed

NextWire ==
    \/ start
    \/ listener_begin
    \/ client_connect(ClientConn)
    \/ listener_accept(ClientConn)
    \/ \E i \in DOMAIN StreamCommands : send_message(i)
    \/ \E n \in 1..(MaxCmds * (PREFIX_LEN + 2)) : handle_client_read(n)
    \/ session_exit(ClientConn)
    \/ \E x \in ClientCommands : codec_command(x)
    \/ \E y \in ServerResponses : codec_response(y)
    \/ \E len \in PrefixValues, avail \in PrefixValues : receive_message_prefix("client", len, avail)
    \/ receive_message_payload("client")
    \/ receive_message_next("client")

SpecWire == InitWire /\ [][NextWire]_vars

\* ---------------------------------------------------------------------------
\* Claims about the wire
\* ---------------------------------------------------------------------------

\* C21: a length prefix above 16 MiB fails the connection before a buffer of
\* that length is allocated: no receive path ever holds a buffer longer than
\* 16 777 216 bytes.
C21_OversizeFrameRejected == \A s \in Sides : rx_alloc[s] <= 16777216

\* C22: on TCP every command the client sends is dispatched exactly once and
\* intact, however the stream is cut into reads: once the server has read all
\* the bytes, the commands it dispatched are the commands sent, in order.
C22_StreamDecodedAsFrames ==
    (wire_c2s = <<>> /\ conn[ClientConn] \in {"serving", "exiting", "closed"})
        => wire_rcvd = wire_sent

\* C23: decode(encode(x)) = x for every Command the client encodes and every
\* Response the server encodes.
C23_CodecRoundTrip == codec_in # NoMessage => codec_out = codec_in

\* ---------------------------------------------------------------------------
\* The handlers of input and preference commands, with the session's quality
\* and the options each screenshot is taken with.
\* ---------------------------------------------------------------------------
\* Commands whose handler answers nothing when the injector succeeds
SilentCommands == {"MouseMove", "MouseScroll", "KeyDown", "KeyUp"}

\* SetQuality{quality: u8}: values below, inside and above the range 1..100
QualityValues == {0, 50, 95, 255}

\* RequestScreenshot{quality: Option<u8>}
RequestQualities == {NULL, 80}

\* SetImageFormat{format}
FormatValues == {"PNG", "WebP"}

\* handle_command reaches the command's handler: the gate lets the command
\* pass and a keep-alive that is due could be sent
HandlerReached(c, cmd, sendOk) == ~RequiresAuth(c, cmd) /\ ~(KeepAliveDue(c) /\ ~sendOk)

\* take_screenshot: the format follows from the quality alone
FormatFor(q) == IF q < 90 THEN "JPEG" ELSE "PNG"

\* An Authenticate command arrives.
session_authenticate(c, cred, sendOk) ==
    /\ SessionStep(c, AuthCmd(cred[1], cred[2]), TRUE, sendOk)
    /\ ext_failed' = [ext_failed EXCEPT ![c] = FALSE]
    /\ UNCHANGED <<clientVars, lockVars, compVars, wireVars, quality, shot_quality, shot_format,
                   fmt_requested>>

\* A MouseMove, MouseScroll, KeyDown or KeyUp arrives; extOk: the injector
\* executes it.
session_input(c, t, extOk, sendOk) ==
    /\ SessionStep(c, Cmd(t), extOk, sendOk)
    /\ ext_failed' = [ext_failed EXCEPT ![c] = HandlerReached(c, Cmd(t), sendOk) /\ ~extOk]
    /\ UNCHANGED <<clientVars, lockVars, compVars, wireVars, quality, shot_quality, shot_format,
                   fmt_requested>>

\* A RequestScreenshot{quality: q} arrives; extOk: capture and encode succeed.
\* handle_screenshot_request: quality.unwrap_or(self.session_info.quality)
session_screenshot(c, q, extOk, sendOk) ==
    /\ SessionStep(c, Cmd("RequestScreenshot"), extOk, sendOk)
    /\ LET reached == HandlerReached(c, Cmd("RequestScreenshot"), sendOk)
           used == IF q = NULL THEN quality[c] ELSE q
       IN  /\ ext_failed' = [ext_failed EXCEPT ![c] = reached /\ ~extOk]
           /\ shot_quality' = [shot_quality EXCEPT ![c] = IF reached THEN used ELSE @]
           /\ shot_format' = [shot_format EXCEPT ![c] =
                                 IF reached /\ extOk THEN FormatFor(used) ELSE @]
    /\ UNCHANGED <<clientVars, lockVars, compVars, wireVars, quality, fmt_requested>>

\* A SetQuality{quality: q} arrives.  handle_set_quality stores q.
session_set_quality(c, q, sendOk) ==
    /\ SessionStep(c, Cmd("SetQuality"), TRUE, sendOk)
    /\ quality' = [quality EXCEPT ![c] =
                      IF HandlerReached(c, Cmd("SetQuality"), sendOk) THEN q ELSE @]
    /\ ext_failed' = [ext_failed EXCEPT ![c] = FALSE]
    /\ UNCHANGED <<clientVars, lockVars, compVars, wireVars, shot_quality, shot_format, fmt_requested>>

\* A SetImageFormat{format: f} arrives.  handle_set_image_format stores nothing.
session_set_image_format(c, f, sendOk) ==
    /\ SessionStep(c, Cmd("SetImageFormat"), TRUE, sendOk)
    /\ fmt_requested' = [fmt_requested EXCEPT ![c] =
                            IF HandlerReached(c, Cmd("SetImageFormat"), sendOk) THEN f ELSE @]
    /\ ext_failed' = [ext_failed EXCEPT ![c] = FALSE]
    /\ UNCHANGED <<clientVars, lockVars, compVars, wireVars, quality, shot_quality, shot_format>>

InitHandlers ==
    /\ transport \in Transports
    /\ config \in [require_auth : BOOLEAN,
                   max_connections : {MaxConnCfg},
                   client_timeout : {20},
                   keep_alive_interval : KeepAliveIntervals]
    /\ feature_file_transfer = TRUE
    /\ diff_config = DefaultDiffConfig
    /\ overflow_checks = FALSE
    /\ Constructed

NextHandlers ==
    \/ start
    \/ listener_begin
    \/ client_connect(ClientConn)
    \/ listener_accept(ClientConn)
    \/ handshake_done(ClientConn)
    \/ handshake_failed(ClientConn)
    \/ \E sendOk \in BOOLEAN : session_authenticate(ClientConn, <<"u", "u">>, sendOk)
    \/ \E t \in SilentCommands, extOk \in BOOLEAN, sendOk \in BOOLEAN :
          session_input(ClientConn, t, extOk, sendOk)
    \/ \E q \in RequestQualities, extOk \in BOOLEAN, sendOk \in BOOLEAN :
          session_screenshot(ClientConn, q, extOk, sendOk)
    \/ \E q \in QualityValues, sendOk \in BOOLEAN : session_set_quality(ClientConn, q, sendOk)
    \/ \E f \in FormatValues, sendOk \in BOOLEAN :
          session_set_image_format(ClientConn, f, sendOk)
    \/ session_exit(ClientConn)

SpecHandlers == InitHandlers /\ [][NextHandlers]_vars

\* ---------------------------------------------------------------------------
\* Claims about the handlers
\* ---------------------------------------------------------------------------

\* The response r is among those the latest handle_command of session c wrote
WroteNext(c, r) == \E i \in DOMAIN lastSent'[c] : lastSent'[c][i] = r

\* C24: a MouseMove, MouseScroll, KeyDown or KeyUp of a session allowed to
\* issue commands, passed to the injector once and executed by it, puts no
\* response at all on the connection.
C24_SilentInputNoResponse ==
    [][\A c \in Conns :
          (/\ Dispatches(c)
           /\ lastCmd'[c].type \in SilentCommands
           /\ (~config.require_auth \/ authenticated[c])
           /\ lastInjected'[c] = <<lastCmd'[c]>>
           /\ ~ext_failed'[c])
              => lastSent'[c] = <<>>]_vars

\* C25: when the capturer or the injector fails while a command is handled, the
\* session answers Error{code = 500} and, the answer sent, goes on: it stays in
\* the serving state, active and registered.
C25_InternalErrorContinues ==
    [][\A c \in Conns :
          (Dispatches(c) /\ ext_failed'[c])
              => /\ WroteNext(c, ErrorResp(500))
                 /\ lastResult'[c] = "Ok"
                       => /\ conn'[c] = "serving"
                          /\ active'[c]
                          /\ c \in client_sessions => c \in client_sessions']_vars

\* A screenshot failed, and the session's next command was handled normally.
C25_Witness ==
    \E c \in Conns :
        /\ shot_quality[c] # -1
        /\ shot_format[c] = "None"
        /\ lastCmd[c].type = "SetQuality"
        /\ lastSent[c] = <<CommandResult>>
        /\ quality[c] = 50
        /\ conn[c] = "serving"
        /\ active[c]
        /\ c \in client_sessions

\* C26: a session's quality, and the quality its screenshots are taken with,
\* always lie within 1..100.
C26_QualityClamped ==
    \A c \in Conns :
        /\ quality[c] \in 1..100
        /\ shot_quality[c] # -1 => shot_quality[c] \in 1..100

\* C27: once a session has handled SetImageFormat{fmt}, its screenshots are
\* encoded in fmt.
C27_FormatPreferenceUsed ==
    [][\A c \in Conns :
          (/\ Dispatches(c)
           /\ lastCmd'[c].type = "RequestScreenshot"
           /\ WroteNext(c, ScreenshotData)
           /\ fmt_requested[c] # "None")
              => shot_format'[c] = fmt_requested[c]]_vars

\* ---------------------------------------------------------------------------
\* The keyboard handler (input/keyboard.rs)
\* ---------------------------------------------------------------------------

VK_R == 82          \* 0x52
VK_F4 == 115        \* 0x73
VK_DELETE == 46     \* 0x2E
\* the first MaxFailPoint OS calls of a command are the ones that may fail
MaxFailPoint == 3

\* key codes a command may name; 65 (0x41) is the letter A
KeyCodes == {VK_R, VK_F4, VK_DELETE, 65}
\* the keys of a KeyCombo
KeyLists == {<<65>>, <<VK_DELETE>>, <<65, VK_F4>>, <<VK_R, 65>>}
\* the modifiers of a key command, in the order the client listed them
ModifierLists == {<<>>, <<"Shift">>, <<"Control">>, <<"Alt">>, <<"Meta">>,
                  <<"Control", "Alt">>, <<"Alt", "Control">>, <<"Meta", "Shift">>}
FailPoints == 0..MaxFailPoint

\* slice.contains(x)
Contains(s, x) == \E i \in DOMAIN s : s[i] = x

is_dangerous_shortcut(key, modifiers) ==
    LET has_ctrl == Contains(modifiers, "Control")
        has_alt == Contains(modifiers, "Alt")
        has_meta == Contains(modifiers, "Meta")
    IN  \/ has_meta /\ key = VK_R
        \/ has_alt /\ key = VK_F4
        \/ has_ctrl /\ has_alt /\ key = VK_DELETE

modifier_to_key(modifier) ==
    CASE modifier = "Shift" -> 16
      [] modifier = "Control" -> 17
      [] modifier = "Alt" -> 18
      [] modifier = "Meta" -> 91
      [] modifier = "CapsLock" -> 20
      [] modifier = "NumLock" -> 144

\* the system calls on the modifier keys, in the order of the list
ModifierEvents(dir, modifiers) ==
    [i \in 1..Len(modifiers) |-> <<dir, modifier_to_key(modifiers[i])>>]

\* the system calls key_down / key_up / key_combo make when nothing stops them
key_down_events(key, modifiers) == ModifierEvents("down", modifiers) \o << <<"down", key>> >>
key_up_events(key, modifiers) == << <<"up", key>> >> \o ModifierEvents("up", modifiers)
key_combo_events(keys, modifiers) ==
    ModifierEvents("down", modifiers)
        \o [i \in 1..(2 * Len(keys)) |-> IF i % 2 = 1 THEN <<"down", keys[(i + 1) \div 2]>>
                                                      ELSE <<"up", keys[i \div 2]>>]
        \o ModifierEvents("up", modifiers)

\* The calls are made in order and the first failing one (the failAt-th, none
\* for 0) ends the command with SystemError: map_err(..)? on every call.
Injected(plan, failAt) ==
    IF failAt = 0 THEN [events |-> plan, result |-> "Ok"]
    ELSE [events |-> SubSeq(plan, 1, failAt - 1), result |-> "SystemError"]

\* KeyboardHandler::key_down with the policy gate behind the modifier presses
key_down_GateLate(key, modifiers, failAt) ==
    LET r == Injected(key_down_events(key, modifiers), failAt)
        blocked == block_shortcuts /\ is_dangerous_shortcut(key, modifiers)
    IN  /\ failAt <= Len(key_down_events(key, modifiers))
        /\ kb_call' = [op |-> "key_down", keys |-> <<key>>, modifiers |-> modifiers,
                       block_shortcuts |-> block_shortcuts]
        /\ kb_events' = IF blocked THEN SubSeq(r.events, 1, Len(modifiers)) ELSE r.events
        /\ kb_result' = IF blocked /\ r.result = "Ok" THEN "InvalidInput" ELSE r.result
        /\ UNCHANGED <<kbRest, block_shortcuts>>
\* KeyboardHandler::key_down
key_down(key, modifiers, failAt) ==
    LET r == Injected(key_down_events(key, modifiers), failAt)
    IN  /\ failAt <= Len(key_down_events(key, modifiers))
        /\ kb_call' = [op |-> "key_down", keys |-> <<key>>, modifiers |-> modifiers,
                       block_shortcuts |-> block_shortcuts]
        /\ IF block_shortcuts /\ is_dangerous_shortcut(key, modifiers)
           THEN kb_events' = <<>> /\ kb_result' = "InvalidInput"
           ELSE kb_events' = r.events /\ kb_result' = r.result
        /\ UNCHANGED <<kbRest, block_shortcuts>>

\* KeyboardHandler::key_up: no policy gate
key_up(key, modifiers, failAt) ==
    LET r == Injected(key_up_events(key, modifiers), failAt)
    IN  /\ failAt <= Len(key_up_events(key, modifiers))
        /\ kb_call' = [op |-> "key_up", keys |-> <<key>>, modifiers |-> modifiers,
                       block_shortcuts |-> block_shortcuts]
        /\ kb_events' = r.events
        /\ kb_result' = r.result
        /\ UNCHANGED <<kbRest, block_shortcuts>>

\* KeyboardHandler::key_combo
key_combo(keys, modifiers, failAt) ==
    LET r == Injected(key_combo_events(keys, modifiers), failAt)
    IN  /\ failAt <= Len(key_combo_events(keys, modifiers))
        /\ kb_call' = [op |-> "key_combo", keys |-> keys, modifiers |-> modifiers,
                       block_shortcuts |-> block_shortcuts]
        /\ IF /\ block_shortcuts
              /\ \E i \in DOMAIN keys : is_dangerous_shortcut(keys[i], modifiers)
           THEN kb_events' = <<>> /\ kb_result' = "InvalidInput"
           ELSE kb_events' = r.events /\ kb_result' = r.result
        /\ UNCHANGED <<kbRest, block_shortcuts>>

\* KeyboardHandler::set_config
set_config(b) ==
    /\ block_shortcuts' = b
    /\ UNCHANGED <<kbRest, kb_call, kb_events, kb_result>>

InitKeyboard ==
    /\ transport = "tcp"
    /\ config = [require_auth |-> FALSE,
                 max_connections |-> MaxConnCfg,
                 client_timeout |-> 20,
                 keep_alive_interval |-> 20]
    /\ feature_file_transfer = TRUE
    /\ diff_config = DefaultDiffConfig
    /\ overflow_checks = FALSE
    /\ Constructed

NextKeyboard ==
    \/ \E b \in BOOLEAN : set_config(b)
    \/ \E k \in KeyCodes, m \in ModifierLists, f \in FailPoints : key_down(k, m, f)
    \/ \E k \in KeyCodes, m \in ModifierLists, f \in FailPoints : key_up(k, m, f)
    \/ \E ks \in KeyLists, m \in ModifierLists, f \in FailPoints : key_combo(ks, m, f)

SpecKeyboard == InitKeyboard /\ [][NextKeyboard]_vars

\* the deny-list: Ctrl+Alt+Del, Alt+F4, Meta+R
DenyList == {<<{"Control", "Alt"}, VK_DELETE>>, <<{"Alt"}, VK_F4>>, <<{"Meta"}, VK_R>>}
\* the latest call names a key and modifiers that make up a deny-listed shortcut
CallMatchesDenyList ==
    \E d \in DenyList, i \in DOMAIN kb_call.keys :
        /\ kb_call.keys[i] = d[2]
        /\ \A m \in d[1] : Contains(kb_call.modifiers, m)

\* C28 (as stated): with block_shortcuts = true, every key command that matches
\* the deny-list is rejected with InvalidInput and injects no modifier or key
\* event.
C28_DenyListedKeyCommandRejected ==
    (kb_call.op # "none" /\ kb_call.block_shortcuts /\ CallMatchesDenyList)
        => (kb_result = "InvalidInput" /\ kb_events = <<>>)

\* C28 (amended): with block_shortcuts = true, every key press (key_down) and
\* every key combination (key_combo) that matches the deny-list is rejected
\* with InvalidInput and injects no modifier or key event.
C28_DenyListedPressRejected ==
    (kb_call.op \in {"key_down", "key_combo"} /\ kb_call.block_shortcuts /\ CallMatchesDenyList)
        => (kb_result = "InvalidInput" /\ kb_events = <<>>)

\* A key combination of a harmless key and Alt+F4 was rejected under the policy.
C28_Witness ==
    /\ kb_call.op = "key_combo"
    /\ kb_call.keys = <<65, VK_F4>>
    /\ kb_call.block_shortcuts
    /\ CallMatchesDenyList
    /\ kb_result = "InvalidInput"
    /\ kb_events = <<>>

\* ---------------------------------------------------------------------------
\* File transfers (CommandProcessor in network/session.rs)
\* ---------------------------------------------------------------------------

\* at most MaxTransfers StartFileTransfer commands are followed
MaxTransfers == 2

\* A path is the sequence of its components; "/" as the first one is the root.
\* File names a StartFileTransfer may carry: a.txt, d/a.txt, ../a.txt, /a.txt
Filenames == {<<"a.txt">>, <<"d", "a.txt">>, <<"..", "a.txt">>, <<"/", "a.txt">>}
TransferSizes == {1, 2}
\* offsets of a FileData chunk; every chunk carries one byte
Offsets == {0, 1}
TransferIds == 1..MaxTransfers

is_absolute(p) == Len(p) > 0 /\ p[1] = "/"
\* Path::join: an absolute argument replaces the base
join(base, p) == IF is_absolute(p) THEN p ELSE base \o p
\* Path::parent
parent(p) == SubSeq(p, 1, Len(p) - 1)

RECURSIVE ResolveFrom(_, _)
ResolveFrom(stack, rest) ==
    IF rest = <<>> THEN stack
    ELSE LET h == Head(rest)
             up == IF stack = <<>> \/ stack[Len(stack)] = ".." THEN Append(stack, "..")
                   ELSE IF stack = <<"/">> THEN stack
                   ELSE SubSeq(stack, 1, Len(stack) - 1)
         IN  ResolveFrom(IF h = ".." THEN up ELSE Append(stack, h), Tail(rest))
\* the place in the file system a path names, from the working directory
Resolve(p) == ResolveFrom(<<>>, p)

\* the directories a path walks through, itself included
Walk(p) == {Resolve(SubSeq(p, 1, k)) : k \in 1..Len(p)}
IsDir(r) == r = <<>> \/ r = <<"/">> \/ r \in fs_dirs
\* Path::exists for a directory path
exists(p) == \A r \in Walk(p) : IsDir(r)
\* what std::fs::create_dir_all(p) adds
create_dir_all(p) == Walk(p) \ {<<>>, <<"/">>}

\* ClientSession::handle_start_file_transfer with CommandProcessor::start_file_transfer
start_file_transfer(filename, size, dirOk, fileOk) ==
    LET path == join(<<"received_files">>, filename)
        mkdir == ~exists(parent(path))
        dirs == IF mkdir /\ dirOk THEN fs_dirs \cup create_dir_all(parent(path)) ELSE fs_dirs
        made == (mkdir => dirOk) /\ fileOk
    IN  /\ next_transfer_id <= MaxTransfers
        /\ IF ~feature_file_transfer
           THEN /\ ft_response' = "Error"
                /\ UNCHANGED <<next_transfer_id, active_transfers, fs_dirs, fs_files>>
           ELSE /\ next_transfer_id' = next_transfer_id + 1
                /\ fs_dirs' = dirs
                /\ fs_files' = IF made THEN fs_files \cup {Resolve(path)} ELSE fs_files
                /\ active_transfers' =
                       IF made
                       THEN active_transfers \cup
                                {[id |-> next_transfer_id, filename |-> filename,
                                  path |-> path, size |-> size, progress |-> 0,
                                  file |-> TRUE]}
                       ELSE active_transfers
                /\ ft_response' = IF made THEN "FileTransferStatus" ELSE "Error"
        /\ UNCHANGED <<ftRest, feature_file_transfer, fs_written>>

Max(a, b) == IF a >= b THEN a ELSE b

\* ClientSession::handle_file_data with CommandProcessor::process_file_data
process_file_data(transfer_id, offset, writeOk) ==
    LET found == {t \in active_transfers : t.id = transfer_id}
        t == CHOOSE x \in found : TRUE
        progress == Max(t.progress, offset + 1)
    IN  /\ IF feature_file_transfer /\ found # {} /\ t.file /\ writeOk
           THEN /\ fs_written' = fs_written \cup {Resolve(t.path)}
                /\ active_transfers' =
                       (active_transfers \ {t}) \cup
                           {[t EXCEPT !.progress = progress, !.file = progress < t.size]}
                /\ ft_response' = "FileTransferStatus"
           ELSE /\ ft_response' = "Error"
                /\ UNCHANGED <<active_transfers, fs_written>>
        /\ UNCHANGED <<ftRest, feature_file_transfer, next_transfer_id, fs_dirs, fs_files>>

InitTransfers ==
    /\ transport = "tcp"
    /\ config = [require_auth |-> FALSE,
                 max_connections |-> MaxConnCfg,
                 client_timeout |-> 20,
                 keep_alive_interval |-> 20]
    /\ feature_file_transfer \in BOOLEAN
    /\ diff_config = DefaultDiffConfig
    /\ overflow_checks = FALSE
    /\ Constructed

NextTransfers ==
    \/ \E f \in Filenames, s \in TransferSizes, dirOk \in BOOLEAN, fileOk \in BOOLEAN :
           start_file_transfer(f, s, dirOk, fileOk)
    \/ \E i \in TransferIds, o \in Offsets, writeOk \in BOOLEAN :
           process_file_data(i, o, writeOk)

SpecTransfers == InitTransfers /\ [][NextTransfers]_vars

\* a file name with a `..` component or an absolute-path marker
Traversing(filename) == Contains(filename, "..") \/ is_absolute(filename)
\* a resolved place beneath the received-files directory
Beneath(r) == Len(r) >= 2 /\ r[1] = "received_files"

\* C29: no transfer is registered under a file name that contains `..` or is
\* absolute, and every file the server created or wrote, and every directory it
\* created, lies in or beneath the received-files directory.
C29_TraversalRejected ==
    /\ \A t \in active_transfers : ~Traversing(t.filename)
    /\ \A r \in fs_files \cup fs_written : Beneath(r)
    /\ \A r \in fs_dirs : r[1] = "received_files"

\* ---------------------------------------------------------------------------
\* The diff calculator (capture/diff.rs)
\* ---------------------------------------------------------------------------

\* colours of a pixel, <<r, g, b>>: black, white, and a red whose pixel_diff
\* from black is exactly the default threshold
Black == <<0, 0, 0>>
White == <<255, 255, 255>>
DimRed == <<45, 0, 0>>

\* the pixel positions of a width x height image
Positions(width, height) == (0..(width - 1)) \X (0..(height - 1))
\* the image that is White on lit, DimRed on dim and Black elsewhere
FrameOf(width, height, lit, dim) ==
    [width |-> width, height |-> height,
     pixels |-> [p \in Positions(width, height) |->
                    IF p \in lit THEN White ELSE IF p \in dim THEN DimRed ELSE Black]]
\* the frames a capture may deliver
Frames ==
    {FrameOf(2, 2, lit, {}) : lit \in {{}, {<<0, 0>>}, {<<0, 0>>, <<1, 1>>}}}
        \cup {FrameOf(2, 2, {}, {<<0, 1>>})}
        \cup {FrameOf(3, 1, lit, {}) : lit \in {{}, {<<2, 0>>}}}
        \cup {FrameOf(0, 0, {}, {})}
\* the configurations set_config may install
DiffConfigs ==
    {DefaultDiffConfig,
     [DefaultDiffConfig EXCEPT !.min_diff_size = 2],
     [DefaultDiffConfig EXCEPT !.block_size = 1, !.min_diff_size = 0],
     [DefaultDiffConfig EXCEPT !.min_diff_size = 0, !.change_ratio_threshold = <<0, 1>>,
                               !.merge_adjacent = FALSE]}

Rectangle(x, y, width, height) == [x |-> x, y |-> y, width |-> width, height |-> height]
area(r) == r.width * r.height
Min(a, b) == IF a <= b THEN a ELSE b
Abs(a) == IF a >= 0 THEN a ELSE 0 - a

overlaps(a, b) ==
    /\ a.x < b.x + b.width
    /\ a.x + a.width > b.x
    /\ a.y < b.y + b.height
    /\ a.y + a.height > b.y

merge(a, b) ==
    LET min_x == Min(a.x, b.x)
        min_y == Min(a.y, b.y)
        max_x == Max(a.x + a.width, b.x + b.width)
        max_y == Max(a.y + a.height, b.y + b.height)
    IN  Rectangle(min_x, min_y, max_x - min_x, max_y - min_y)

pixel_diff(p1, p2) ==
    ((Abs(p1[1] - p2[1]) + Abs(p1[2] - p2[2]) + Abs(p1[3] - p2[3])) \div 3) % 256

\* one pass of the inner for loop of merge_adjacent_regions, from index j on
RECURSIVE MergePass(_, _, _, _, _, _)
MergePass(regions, i, j, current_region, merged, merged_any) ==
    IF j > Len(regions)
    THEN [current_region |-> current_region, merged |-> merged, merged_any |-> merged_any]
    ELSE IF j \in merged \/ i = j \/ ~overlaps(current_region, regions[j])
         THEN MergePass(regions, i, j + 1, current_region, merged, merged_any)
         ELSE MergePass(regions, i, j + 1, merge(current_region, regions[j]),
                        merged \cup {j}, TRUE)

\* its while loop: passes are repeated until one merges nothing
RECURSIVE MergeGrow(_, _, _, _)
MergeGrow(regions, i, current_region, merged) ==
    LET p == MergePass(regions, i, 1, current_region, merged, FALSE)
    IN  IF p.merged_any THEN MergeGrow(regions, i, p.current_region, p.merged) ELSE p

\* its outer for loop, from index i on
RECURSIVE MergeFrom(_, _, _, _)
MergeFrom(regions, i, merged, result) ==
    IF i > Len(regions) THEN result
    ELSE IF i \in merged THEN MergeFrom(regions, i + 1, merged, result)
         ELSE LET g == MergeGrow(regions, i, regions[i], merged \cup {i})
              IN  MergeFrom(regions, i + 1, g.merged, Append(result, g.current_region))

merge_adjacent_regions(regions) == MergeFrom(regions, 1, {}, <<>>)

\* blocks that reach one pixel into their right-hand neighbour
BlocksOf_Overlapping(width, height, block_size) ==
    {Rectangle(bx, by, Min(block_size + 1, width - bx), Min(block_size, height - by)) :
        bx \in {x \in 0..(width - 1) : x % block_size = 0},
        by \in {y \in 0..(height - 1) : y % block_size = 0}}
\* the blocks calculate cuts a width x height image into
BlocksOf(width, height, block_size) ==
    {Rectangle(bx, by, Min(block_size, width - bx), Min(block_size, height - by)) :
        bx \in {x \in 0..(width - 1) : x % block_size = 0},
        by \in {y \in 0..(height - 1) : y % block_size = 0}}

\* block_changed_pixels of a block
BlockChangedPixels(prev_img, current_img, b, threshold) ==
    Cardinality({p \in Positions(current_img.width, current_img.height) :
                    /\ p[1] \in b.x..(b.x + b.width - 1)
                    /\ p[2] \in b.y..(b.y + b.height - 1)
                    /\ pixel_diff(current_img.pixels[p], prev_img.pixels[p]) > threshold})

\* the blocks calculate inserts into changed_blocks
ChangedBlocks(prev_img, current_img, cfg) ==
    {b \in BlocksOf(current_img.width, current_img.height, cfg.block_size) :
        BlockChangedPixels(prev_img, current_img, b, cfg.threshold)
                * cfg.change_ratio_threshold[2]
            >= cfg.change_ratio_threshold[1] * area(b)}

RECURSIVE ChangedPixelsCount(_, _, _, _)
ChangedPixelsCount(prev_img, current_img, blocks, threshold) ==
    IF blocks = {} THEN 0
    ELSE LET b == CHOOSE x \in blocks : TRUE
         IN  BlockChangedPixels(prev_img, current_img, b, threshold)
                 + ChangedPixelsCount(prev_img, current_img, blocks \ {b}, threshold)

\* the orders in which a HashSet may hand out its elements
Orders(S) == {s \in [1..Cardinality(S) -> S] : \A i, j \in DOMAIN s : s[i] = s[j] => i = j}

\* the result for a first frame or a frame of another size, without its regions
FullFrameResult_NoRegion(current_img) ==
    [changed_regions |-> <<>>,
     changed_pixels |-> current_img.width * current_img.height,
     total_pixels |-> current_img.width * current_img.height,
     change_ratio |-> <<1, 1>>]
\* the result for a first frame or a frame of another size; change_ratio is the
\* literal 1.0
FullFrameResult(current_img) ==
    [changed_regions |-> <<Rectangle(0, 0, current_img.width, current_img.height)>>,
     changed_pixels |-> current_img.width * current_img.height,
     total_pixels |-> current_img.width * current_img.height,
     change_ratio |-> <<1, 1>>]

\* the result of the block comparison, the changed blocks taken in the given
\* order; change_ratio is the quotient <<changed_pixels_count, total_pixels>>
BlockResult(prev_img, current_img, cfg, order) ==
    LET regions == IF cfg.merge_adjacent THEN merge_adjacent_regions(order) ELSE order
        Keep(r) == r.width >= cfg.min_diff_size /\ r.height >= cfg.min_diff_size
        count == ChangedPixelsCount(prev_img, current_img,
                                    ChangedBlocks(prev_img, current_img, cfg), cfg.threshold)
    IN  [changed_regions |-> IF cfg.min_diff_size > 0 THEN SelectSeq(regions, Keep)
                             ELSE regions,
         changed_pixels |-> count,
         total_pixels |-> current_img.width * current_img.height,
         change_ratio |-> <<count, current_img.width * current_img.height>>]

\* DiffCalculator::calculate
calculate(current) ==
    /\ diff_before' = previous
    /\ diff_arg' = current
    /\ previous' = current
    /\ IF \/ previous = NoFrame
          \/ previous.width # current.width
          \/ previous.height # current.height
       THEN diff_result' = FullFrameResult(current)
       ELSE \E order \in Orders(ChangedBlocks(previous, current, diff_config)) :
                diff_result' = BlockResult(previous, current, diff_config, order)
    /\ UNCHANGED <<diffRest, diff_config>>

\* DiffCalculator::clear_previous
clear_previous ==
    /\ previous' = NoFrame
    /\ UNCHANGED <<diffRest, diff_config, diff_before, diff_arg, diff_result>>

\* DiffCalculator::set_previous
set_previous(image) ==
    /\ previous' = image
    /\ UNCHANGED <<diffRest, diff_config, diff_before, diff_arg, diff_result>>

\* DiffCalculator::set_config
diff_set_config(cfg) ==
    /\ diff_config' = cfg
    /\ UNCHANGED <<diffRest, previous, diff_before, diff_arg, diff_result>>

InitDiff ==
    /\ transport = "tcp"
    /\ config = [require_auth |-> FALSE,
                 max_connections |-> MaxConnCfg,
                 client_timeout |-> 20,
                 keep_alive_interval |-> 20]
    /\ feature_file_transfer = TRUE
    /\ diff_config = DefaultDiffConfig
    /\ overflow_checks = FALSE
    /\ Constructed

NextDiff ==
    \/ \E f \in Frames : calculate(f)
    \/ clear_previous
    \/ \E f \in Frames : set_previous(f)
    \/ \E cfg \in DiffConfigs : diff_set_config(cfg)

SpecDiff == InitDiff /\ [][NextDiff]_vars

\* C30: when calculate was called with no previous frame, or with a previous
\* frame of other dimensions than the current one, its result has the single
\* full-frame rectangle of the current frame as changed_regions and a
\* change_ratio of 1.0.
C30_FullFrameWithoutComparableFrame ==
    (/\ diff_arg # NoFrame
     /\ \/ diff_before = NoFrame
        \/ diff_before.width # diff_arg.width
        \/ diff_before.height # diff_arg.height)
        => /\ diff_result.changed_regions
                  = <<Rectangle(0, 0, diff_arg.width, diff_arg.height)>>
           /\ diff_result.change_ratio[1] = diff_result.change_ratio[2]
           /\ diff_result.change_ratio[2] # 0

\* A 3 x 1 frame followed a 2 x 2 frame and was reported as changed in full.
C30_Witness ==
    /\ diff_before # NoFrame
    /\ diff_before.width = 2
    /\ diff_arg.width = 3
    /\ diff_result.changed_regions = <<Rectangle(0, 0, 3, 1)>>
    /\ diff_result.change_ratio = <<1, 1>>

\* the latest calculate compared two frames of equal size
Compared ==
    /\ diff_arg # NoFrame
    /\ diff_before # NoFrame
    /\ diff_before.width = diff_arg.width
    /\ diff_before.height = diff_arg.height

\* C31: when calculate was given a frame equal to the retained previous frame,
\* its result has no changed region and a change_ratio of 0.0.
C31_IdenticalFrameNoChange ==
    (diff_arg # NoFrame /\ diff_before = diff_arg)
        => /\ diff_result.changed_regions = <<>>
           /\ diff_result.change_ratio[1] = 0
           /\ diff_result.change_ratio[2] # 0

\* no two of the rectangles of the sequence overlap
PairwiseDisjoint(regions) ==
    \A i, j \in DOMAIN regions : i # j => ~overlaps(regions[i], regions[j])

\* C32: the changed regions of every DiffResult, those computed with merging
\* enabled included, are pairwise non-overlapping.
C32_RegionsPairwiseDisjoint == PairwiseDisjoint(diff_result.changed_regions)

\* A result of the configuration with blocks of one pixel, which merges, that
\* has two changed regions.
C32_Witness ==
    /\ Compared
    /\ Len(diff_result.changed_regions) = 2
    /\ \A i \in DOMAIN diff_result.changed_regions :
           area(diff_result.changed_regions[i]) = 1

\* the image prev_img with the pixels inside the regions taken from current_img
Reapply(prev_img, current_img, regions) ==
    [prev_img EXCEPT !.pixels =
        [p \in DOMAIN prev_img.pixels |->
            IF \E i \in DOMAIN regions :
                   /\ p[1] \in regions[i].x..(regions[i].x + regions[i].width - 1)
                   /\ p[2] \in regions[i].y..(regions[i].y + regions[i].height - 1)
            THEN current_img.pixels[p]
            ELSE prev_img.pixels[p]]]

\* C33: for a previous and a current frame of equal size, copying the pixels
\* inside the result's changed regions from the current frame onto the previous
\* frame gives the current frame.
C33_ReapplyReconstructs ==
    Compared => Reapply(diff_before, diff_arg, diff_result.changed_regions) = diff_arg

\* A calculator built by DiffCalculator::new(config) and used through calculate
\* and clear_previous only.
InitDiffCalls ==
    /\ transport = "tcp"
    /\ config = [require_auth |-> FALSE,
                 max_connections |-> MaxConnCfg,
                 client_timeout |-> 20,
                 keep_alive_interval |-> 20]
    /\ feature_file_transfer = TRUE
    /\ diff_config \in DiffConfigs
    /\ overflow_checks = FALSE
    /\ Constructed

NextDiffCalls ==
    \/ \E f \in Frames : calculate(f)
    \/ clear_previous

SpecDiffCalls == InitDiffCalls /\ [][NextDiffCalls]_vars

\* C37: the retained previous frame is the argument of the latest calculate
\* unless clear_previous removed it, and a calculate given the frame that the
\* calculate before it retained reports no changed region.
C37_PreviousIsLatestArgument ==
    /\ previous \in {NoFrame, diff_arg}
    /\ (diff_arg # NoFrame /\ diff_before = diff_arg) => diff_result.changed_regions = <<>>

\* ---------------------------------------------------------------------------
\* Rectangle arithmetic in u32 (capture/diff.rs 23-55)
\* ---------------------------------------------------------------------------

\* A u32 is the pair <<h, l>> of its high and low 16 bits, its value h * 65536 + l.
\* The rectangles merge is called on, their fields among 0, 1, 5, 65536 and
\* 4294967295
Rectangles ==
    [x : {<<0, 0>>, <<0, 5>>, <<65535, 65535>>}, y : {<<0, 0>>},
     width : {<<0, 1>>, <<0, 5>>, <<1, 0>>}, height : {<<0, 1>>, <<1, 0>>}]

u32_lt(a, b) == a[1] < b[1] \/ (a[1] = b[1] /\ a[2] < b[2])
u32_le(a, b) == a = b \/ u32_lt(a, b)
u32_min(a, b) == IF u32_le(a, b) THEN a ELSE b
u32_max(a, b) == IF u32_le(a, b) THEN b ELSE a

\* a + b as <<carry, h, l>>: the sum without wrapping
WideSum(a, b) ==
    LET l == a[2] + b[2]
        h == a[1] + b[1] + (l \div 65536)
    IN  <<h \div 65536, h % 65536, l % 65536>>
\* a + b in u32: the wrapped value, and whether it overflowed
u32_add(a, b) ==
    LET w == WideSum(a, b) IN [value |-> <<w[2], w[3]>>, overflow |-> w[1] # 0]
\* a - b in u32
u32_sub(a, b) ==
    LET l == a[2] - b[2]
        h == a[1] - b[1] - (IF l < 0 THEN 1 ELSE 0)
    IN  [value |-> <<(h + 65536) % 65536, (l + 65536) % 65536>>, overflow |-> u32_lt(a, b)]
\* the product of two 16-bit numbers as <<h, l>>
Mul16(x, y) ==
    LET t1 == x * (y % 256)
        t2 == x * (y \div 256)
        l == t1 + (t2 % 256) * 256
    IN  <<(t2 \div 256) + (l \div 65536), l % 65536>>
\* a * b in u32
u32_mul(a, b) ==
    LET p0 == Mul16(a[2], b[2])
        p1 == Mul16(a[1], b[2])
        p2 == Mul16(a[2], b[1])
        p3 == Mul16(a[1], b[1])
        mid == p0[1] + p1[2] + p2[2]
    IN  [value |-> <<mid % 65536, p0[2]>>,
         overflow |-> (mid \div 65536) + p1[1] + p2[1] + p3[1] + p3[2] # 0]

\* Rectangle::area on u32 fields
area_u32(r) == u32_mul(r.width, r.height)

\* Rectangle::merge on u32 fields: the rectangle wrapping arithmetic yields, and
\* whether an operation overflowed
merge_u32(a, b) ==
    LET ax == u32_add(a.x, a.width)
        bx == u32_add(b.x, b.width)
        ay == u32_add(a.y, a.height)
        by == u32_add(b.y, b.height)
        min_x == u32_min(a.x, b.x)
        min_y == u32_min(a.y, b.y)
        max_x == u32_max(ax.value, bx.value)
        max_y == u32_max(ay.value, by.value)
        w == u32_sub(max_x, min_x)
        h == u32_sub(max_y, min_y)
    IN  [value |-> [x |-> min_x, y |-> min_y, width |-> w.value, height |-> h.value],
         overflow |-> \/ ax.overflow \/ bx.overflow \/ ay.overflow \/ by.overflow
                      \/ w.overflow \/ h.overflow]

\* a.merge(&b): an overflow panics in a build with overflow checks and wraps
\* in one without
rect_merge(a, b) ==
    LET m == merge_u32(a, b)
    IN  /\ rect_a' = a
        /\ rect_b' = b
        /\ rect_panicked' = (overflow_checks /\ m.overflow)
        /\ rect_merged' = IF overflow_checks /\ m.overflow THEN NoRect ELSE m.value
        /\ UNCHANGED <<rectRest, overflow_checks>>

InitRect ==
    /\ transport = "tcp"
    /\ config = [require_auth |-> FALSE,
                 max_connections |-> MaxConnCfg,
                 client_timeout |-> 20,
                 keep_alive_interval |-> 20]
    /\ feature_file_transfer = TRUE
    /\ diff_config = DefaultDiffConfig
    /\ overflow_checks \in BOOLEAN
    /\ Constructed

NextRect == \E a \in Rectangles, b \in Rectangles : rect_merge(a, b)

SpecRect == InitRect /\ [][NextRect]_vars

\* the rectangle m covers the rectangle r, edges compared without wrapping
Covers(m, r) ==
    LET Le3(s, t) == \/ s[1] < t[1]
                     \/ s[1] = t[1] /\ u32_le(<<s[2], s[3]>>, <<t[2], t[3]>>)
    IN  /\ u32_le(m.x, r.x)
        /\ u32_le(m.y, r.y)
        /\ Le3(WideSum(r.x, r.width), WideSum(m.x, m.width))
        /\ Le3(WideSum(r.y, r.height), WideSum(m.y, m.height))

\* area() of r returns, and returns at least v
AreaAtLeast(r, v) ==
    /\ ~(overflow_checks /\ area_u32(r).overflow)
    /\ u32_le(v, area_u32(r).value)

\* C34: a.merge(b) returns a rectangle that contains a and b and whose area is
\* at least the area of a and at least the area of b.
C34_MergeContainsBoth ==
    rect_a # NoRect
        => /\ ~rect_panicked
           /\ Covers(rect_merged, rect_a)
           /\ Covers(rect_merged, rect_b)
           /\ AreaAtLeast(rect_merged, area_u32(rect_a).value)
           /\ AreaAtLeast(rect_merged, area_u32(rect_b).value)

\* ---------------------------------------------------------------------------
\* The screen capturer (capture/screenshot.rs)
\* ---------------------------------------------------------------------------

\* the capturer's clock advances in steps of CapTick up to MaxCapTime
CapTick == 25
MaxCapTime == 100
\* the monitors the platform reports
NumMonitors == 2
\* indices a caller may pass: the monitors and one out of range
MonitorIndices == 0..NumMonitors
MinIntervals == {0, DEFAULT_MIN_INTERVAL}

\* now.duration_since(self.last_capture_time) <= self.min_interval
TooSoon_Inclusive(t, since, interval) == t - since <= interval
\* now.duration_since(self.last_capture_time) < self.min_interval
TooSoon(t, since, interval) == t - since < interval

\* platform_capture_monitor: a frame of the monitor, or an error when the index
\* is out of range or the platform fails
platform_capture_monitor(monitor_index, t, platformOk) ==
    IF monitor_index < NumMonitors /\ platformOk
    THEN [monitor_index |-> monitor_index, timestamp |-> t]
    ELSE NoCapture

\* ScreenCapture::capture_monitor at instant t on the capturer state st:
\* the state it leaves, what it returns, and whether it asked the platform
CaptureMonitor(st, monitor_index, t, platformOk) ==
    LET image == platform_capture_monitor(monitor_index, t, platformOk)
    IN  IF /\ TooSoon(t, st.last_capture_time, st.min_interval)
           /\ st.last_capture # NoCapture
        THEN [st EXCEPT !.returned = st.last_capture, !.acquired = FALSE]
        ELSE IF image = NoCapture
             THEN [st EXCEPT !.returned = NoCapture, !.acquired = TRUE]
             ELSE [st EXCEPT !.last_capture = image, !.last_capture_time = t,
                             !.returned = image, !.acquired = TRUE]

\* the capturer's fields as CaptureMonitor takes them
CapturerState ==
    [last_capture |-> last_capture, last_capture_time |-> last_capture_time,
     min_interval |-> min_interval, returned |-> NoCapture, acquired |-> FALSE]

\* the record of a capture_monitor call at instant t
CallRecord(st, monitor_index, t) ==
    [monitor_index |-> monitor_index, at |-> t, min_interval |-> st.min_interval,
     last_capture |-> st.last_capture, last_capture_time |-> st.last_capture_time]

\* ScreenCapture::capture_monitor
capture_monitor(monitor_index, platformOk) ==
    LET r == CaptureMonitor(CapturerState, monitor_index, cap_now, platformOk)
    IN  /\ last_capture' = r.last_capture
        /\ last_capture_time' = r.last_capture_time
        /\ cap_call' = CallRecord(CapturerState, monitor_index, cap_now)
        /\ cap_acquired' = r.acquired
        /\ cap_returned' = r.returned
        /\ UNCHANGED <<capRest, cap_now, min_interval, monitor, cap_all>>

\* ScreenCapture::capture: the selected monitor, or the main monitor
capture(platformOk) ==
    capture_monitor(IF monitor # 0 - 1 THEN monitor ELSE 0, platformOk)

\* ScreenCapture::capture_all_monitors with two monitors; the second capture
\* begins gap milliseconds after the first
capture_all_monitors(ok0, ok1, gap) ==
    LET r0 == CaptureMonitor(CapturerState, 0, cap_now, ok0)
        r1 == CaptureMonitor(r0, 1, cap_now + gap, ok1)
        images == (IF r0.returned # NoCapture THEN <<r0.returned>> ELSE <<>>)
                      \o (IF r1.returned # NoCapture THEN <<r1.returned>> ELSE <<>>)
    IN  /\ cap_now + gap <= MaxCapTime
        /\ cap_now' = cap_now + gap
        /\ last_capture' = r1.last_capture
        /\ last_capture_time' = r1.last_capture_time
        /\ cap_call' = CallRecord(r0, 1, cap_now + gap)
        /\ cap_acquired' = r1.acquired
        /\ cap_returned' = r1.returned
        /\ cap_all' = images
        /\ UNCHANGED <<capRest, min_interval, monitor>>

\* ScreenCapture::set_min_interval
set_min_interval(interval) ==
    /\ min_interval' = interval
    /\ UNCHANGED <<capRest, cap_now, last_capture, last_capture_time, monitor, cap_call,
                   cap_acquired, cap_returned, cap_all>>

\* ScreenCapture::set_monitor
set_monitor(m) ==
    /\ monitor' = m
    /\ UNCHANGED <<capRest, cap_now, min_interval, last_capture, last_capture_time, cap_call,
                   cap_acquired, cap_returned, cap_all>>

\* time passes between two calls
cap_tick ==
    /\ cap_now + CapTick <= MaxCapTime
    /\ cap_now' = cap_now + CapTick
    /\ UNCHANGED <<capRest, min_interval, last_capture, last_capture_time, monitor, cap_call,
                   cap_acquired, cap_returned, cap_all>>

InitCapture ==
    /\ transport = "tcp"
    /\ config = [require_auth |-> FALSE,
                 max_connections |-> MaxConnCfg,
                 client_timeout |-> 20,
                 keep_alive_interval |-> 20]
    /\ feature_file_transfer = TRUE
    /\ diff_config = DefaultDiffConfig
    /\ overflow_checks = FALSE
    /\ Constructed

NextCapture ==
    \/ cap_tick
    \/ \E i \in MinIntervals : set_min_interval(i)
    \/ \E m \in 0..(NumMonitors - 1) : set_monitor(m)
    \/ \E i \in MonitorIndices, ok \in BOOLEAN : capture_monitor(i, ok)
    \/ \E ok \in BOOLEAN : capture(ok)
    \/ \E ok0 \in BOOLEAN, ok1 \in BOOLEAN, gap \in {0, CapTick} :
           capture_all_monitors(ok0, ok1, gap)

SpecCapture == InitCapture /\ [][NextCapture]_vars

\* C35: a capture_monitor call that found a captured frame returns that frame
\* without asking the platform when less than min_interval has passed since its
\* acquisition, and asks the platform for a new frame otherwise.
C35_RateCap ==
    (cap_call # NoCaptureCall /\ cap_call.last_capture # NoCapture)
        => IF cap_call.at - cap_call.last_capture_time < cap_call.min_interval
           THEN /\ ~cap_acquired
                /\ cap_returned = cap_call.last_capture
                /\ last_capture = cap_call.last_capture
           ELSE cap_acquired

\* A call 25 ms after an acquisition, under an interval of 50 ms, was answered
\* with the retained frame.
C35_Witness ==
    /\ cap_call.last_capture # NoCapture
    /\ cap_call.min_interval = DEFAULT_MIN_INTERVAL
    /\ cap_call.at - cap_call.last_capture_time = CapTick
    /\ ~cap_acquired
    /\ cap_returned = cap_call.last_capture

\* C36: the frame a successful capture_monitor call returns was acquired from
\* the monitor with the requested index.
C36_FrameOfRequestedMonitor ==
    cap_returned # NoCapture => cap_returned.monitor_index = cap_call.monitor_index

\* ---------------------------------------------------------------------------
\* Key commands of several sessions on one keyboard (input/mod.rs, session.rs)
\* ---------------------------------------------------------------------------

\* the sessions sharing the Arc<Mutex<InputHandler>>
KeySessions == 1..2
\* the key commands the sessions send
SessionKeyCodes == {VK_DELETE, VK_F4, 65}
SessionKeyLists == {<<65>>, <<65, VK_F4>>}
SessionModifierLists == {<<>>, <<"Alt">>, <<"Control", "Alt">>}

\* the keys the OS holds after the injected events
RECURSIVE Held(_, _)
Held(held, events) ==
    IF events = <<>> THEN held
    ELSE Held(IF Head(events)[1] = "down" THEN held \cup {Head(events)[2]}
                                          ELSE held \ {Head(events)[2]},
              Tail(events))

\* KeyboardHandler::key_down / key_up / key_combo: the events injected and the
\* result, for the command and the policy in force
KeyboardOutcome(op, keys, modifiers, failAt) ==
    LET plan == CASE op = "key_down" -> key_down_events(keys[1], modifiers)
                  [] op = "key_up" -> key_up_events(keys[1], modifiers)
                  [] op = "key_combo" -> key_combo_events(keys, modifiers)
        gated == /\ op \in {"key_down", "key_combo"}
                 /\ block_shortcuts
                 /\ \E i \in DOMAIN keys : is_dangerous_shortcut(keys[i], modifiers)
    IN  IF gated THEN [events |-> <<>>, result |-> "InvalidInput"]
        ELSE Injected(plan, failAt)

\* Session::handle_key_down / handle_key_up / handle_key_combo of session s:
\* InputHandler::handle_command under the handler's mutex, one command at a time
session_key_command(s, op, keys, modifiers, failAt) ==
    LET r == KeyboardOutcome(op, keys, modifiers, failAt)
    IN  /\ kb_call' = [op |-> op, keys |-> keys, modifiers |-> modifiers,
                       block_shortcuts |-> block_shortcuts]
        /\ kb_events' = r.events
        /\ kb_result' = r.result
        /\ os_held' = Held(os_held, r.events)
        /\ os_session' = s
        /\ UNCHANGED <<osRest, block_shortcuts>>

InitKeySessions ==
    /\ transport = "tcp"
    /\ config = [require_auth |-> FALSE,
                 max_connections |-> MaxConnCfg,
                 client_timeout |-> 20,
                 keep_alive_interval |-> 20]
    /\ feature_file_transfer = TRUE
    /\ diff_config = DefaultDiffConfig
    /\ overflow_checks = FALSE
    /\ Constructed

NextKeySessions ==
    \/ \E s \in KeySessions, k \in SessionKeyCodes, m \in SessionModifierLists :
           session_key_command(s, "key_down", <<k>>, m, 0)
    \/ \E s \in KeySessions, k \in SessionKeyCodes, m \in SessionModifierLists :
           session_key_command(s, "key_up", <<k>>, m, 0)
    \/ \E s \in KeySessions, ks \in SessionKeyLists, m \in SessionModifierLists,
          f \in {0, 2} :
           session_key_command(s, "key_combo", ks, m, f)

SpecKeySessions == InitKeySessions /\ [][NextKeySessions]_vars

\* C38: with block_shortcuts = true the OS never holds all keys of a
\* deny-listed combination (Ctrl+Alt+Del, Alt+F4, Meta+R) at the same time.
C38_NoDenyListedCombinationHeld ==
    block_shortcuts
        => ~ \E d \in DenyList :
               /\ d[2] \in os_held
               /\ \A m \in d[1] : modifier_to_key(m) \in os_held

\* ---------------------------------------------------------------------------
\* The viewer's network loop (client ui/window.rs)
\* ---------------------------------------------------------------------------

\* the command queue holds up to MaxQueue commands between two iterations
MaxQueue == 2
\* the thread sends up to MaxSent commands
MaxSent == 8
\* what the UI queues: mouse moves, clicks and screenshot requests
QueuedCommands == {"MouseMove", "MouseClick", "RequestScreenshot"}

\* ClientSession: the responses the server writes for a command, in its
\* success path; a screenshot request is answered with the image or Error 500
ResponsesTo(cmd, n, captureOk) ==
    CASE cmd \in SilentCommands -> <<>>
      [] cmd = "RequestScreenshot" ->
             << [type |-> IF captureOk THEN "ScreenshotData" ELSE "Error", to |-> n] >>
      [] cmd = "Ping" -> << [type |-> "Pong", to |-> n] >>
      [] OTHER -> << [type |-> "CommandResult", to |-> n] >>

\* client.send(cmd) for each command of the list, the first being the
\* (n+1)-th command on the connection: the responses the server writes
RECURSIVE SendAll(_, _, _)
SendAll(commands, n, captureOk) ==
    IF commands = <<>> THEN <<>>
    ELSE ResponsesTo(Head(commands), n + 1, captureOk)
             \o SendAll(Tail(commands), n + 1, captureOk)

\* the network thread connects and sends SetQuality before its loop
viewer_connect ==
    /\ ~vw_running
    /\ vw_running' = TRUE
    /\ vw_sent' = vw_sent + 1
    /\ vw_unread' = vw_unread \o ResponsesTo("SetQuality", vw_sent + 1, TRUE)
    /\ UNCHANGED <<vwRest, command_queue, image_data, vw_request, vw_read>>

\* MainWindow::send_command
send_command(cmd) ==
    /\ Len(command_queue) < MaxQueue
    /\ command_queue' = Append(command_queue, cmd)
    /\ UNCHANGED <<vwRest, vw_running, image_data, vw_sent, vw_unread, vw_request, vw_read>>

\* one iteration of the network loop: the queued commands are sent, then a
\* screenshot is requested when no image is held or a request was queued,
\* and one response is read
network_loop(captureOk) ==
    LET commands == command_queue
        sentQueued == vw_sent + Len(commands)
        afterQueued == vw_unread \o SendAll(commands, vw_sent, captureOk)
        requests == \/ ~image_data
                    \/ \E i \in DOMAIN commands : commands[i] = "RequestScreenshot"
        afterRequest == afterQueued
                            \o ResponsesTo("RequestScreenshot", sentQueued + 1, captureOk)
    IN  /\ vw_running
        /\ sentQueued + 1 <= MaxSent
        /\ command_queue' = <<>>
        /\ IF requests
           THEN /\ vw_sent' = sentQueued + 1
                /\ vw_request' = sentQueued + 1
                /\ vw_read' = Head(afterRequest)
                /\ vw_unread' = Tail(afterRequest)
                /\ image_data' = (image_data \/ Head(afterRequest).type = "ScreenshotData")
           ELSE /\ vw_sent' = sentQueued
                /\ vw_request' = 0
                /\ vw_read' = [type |-> "none", to |-> 0]
                /\ vw_unread' = afterQueued
                /\ UNCHANGED image_data
        /\ UNCHANGED <<vwRest, vw_running>>

InitViewer ==
    /\ transport = "tcp"
    /\ config = [require_auth |-> FALSE,
                 max_connections |-> MaxConnCfg,
                 client_timeout |-> 20,
                 keep_alive_interval |-> 20]
    /\ feature_file_transfer = TRUE
    /\ diff_config = DefaultDiffConfig
    /\ overflow_checks = FALSE
    /\ Constructed

NextViewer ==
    \/ viewer_connect
    \/ \E cmd \in QueuedCommands : send_command(cmd)
    \/ \E captureOk \in BOOLEAN : network_loop(captureOk)

SpecViewer == InitViewer /\ [][NextViewer]_vars

\* C39: the response the network loop reads after sending RequestScreenshot
\* answers that request, and no response to an earlier command stays unread.
C39_ResponseAnswersRequest ==
    vw_request # 0 => (vw_read.to = vw_request /\ vw_unread = <<>>)

\* ---------------------------------------------------------------------------
\* NetworkClient::connect of the three transports (client network/)
\* ---------------------------------------------------------------------------

ClientKinds == {"tcp", "websocket", "webrtc"}
\* what receive() yields for the Authenticate command
AuthReplies == {"granted", "denied", "other", "error"}

\* TcpClient::connect / WebSocketClient::connect from the state st:
\*   addressOk  the host (the URL) parses
\*   openOk     the transport connects; for TCP the socket options are set too
\*   withAuth   the ConnectionInfo has a username and a password
\*   sendOk     send(Authenticate) succeeds
\*   reply      what receive() yields
StreamConnect(st, addressOk, openOk, withAuth, sendOk, reply) ==
    LET connecting == [st EXCEPT !.state = "Connecting"]
        opened == [connecting EXCEPT !.link = TRUE, !.state = "Connected"]
        authenticating == [opened EXCEPT !.state = "Authenticating"]
    IN  IF ~addressOk \/ ~openOk THEN [connecting EXCEPT !.returned = "Err"]
        ELSE IF ~withAuth THEN [opened EXCEPT !.returned = "Ok"]
        ELSE IF ~sendOk \/ reply = "error" THEN [authenticating EXCEPT !.returned = "Err"]
        ELSE IF reply = "granted"
             THEN [authenticating EXCEPT !.state = "Connected", !.returned = "Ok"]
        ELSE [authenticating EXCEPT !.state = "Error", !.returned = "Err"]

\* WebRtcClient::connect from the state st:
\*   peerOk   the peer connection, the data channel and the offer are created
\*   opens    the data channel opens within the 30 seconds connect waits
WebRtcConnect(st, peerOk, opens) ==
    LET connecting == [st EXCEPT !.state = "Connecting"]
    IN  IF ~peerOk \/ ~opens THEN [connecting EXCEPT !.returned = "Err"]
        ELSE [connecting EXCEPT !.link = TRUE, !.state = "Connected", !.returned = "Ok"]

ClientState == [state |-> cn_state, link |-> cn_link, returned |-> cn_returned]

\* is_connected()
is_connected == cn_link /\ cn_state = "Connected"

\* TcpClient::new / WebSocketClient::new / WebRtcClient::new
new_client(kind) ==
    /\ cn_kind' = kind
    /\ cn_state' = "Disconnected"
    /\ cn_link' = FALSE
    /\ cn_call' = [op |-> "none"]
    /\ cn_returned' = "none"
    /\ UNCHANGED cnRest

\* TcpClient::connect
tcp_connect(addressOk, openOk, withAuth, sendOk, reply) ==
    LET r == StreamConnect(ClientState, addressOk, openOk, withAuth, sendOk, reply)
    IN  /\ cn_kind = "tcp"
        /\ cn_state' = r.state
        /\ cn_link' = r.link
        /\ cn_returned' = r.returned
        /\ cn_call' = [op |-> "connect", addressOk |-> addressOk, openOk |-> openOk,
                       withAuth |-> withAuth, sendOk |-> sendOk, reply |-> reply]
        /\ UNCHANGED <<cnRest, cn_kind>>

\* WebSocketClient::connect
websocket_connect(addressOk, openOk, withAuth, sendOk, reply) ==
    LET r == StreamConnect(ClientState, addressOk, openOk, withAuth, sendOk, reply)
    IN  /\ cn_kind = "websocket"
        /\ cn_state' = r.state
        /\ cn_link' = r.link
        /\ cn_returned' = r.returned
        /\ cn_call' = [op |-> "connect", addressOk |-> addressOk, openOk |-> openOk,
                       withAuth |-> withAuth, sendOk |-> sendOk, reply |-> reply]
        /\ UNCHANGED <<cnRest, cn_kind>>

\* WebRtcClient::connect
webrtc_connect(peerOk, opens) ==
    LET r == WebRtcConnect(ClientState, peerOk, opens)
    IN  /\ cn_kind = "webrtc"
        /\ cn_state' = r.state
        /\ cn_link' = r.link
        /\ cn_returned' = r.returned
        /\ cn_call' = [op |-> "connect", peerOk |-> peerOk, opens |-> opens]
        /\ UNCHANGED <<cnRest, cn_kind>>

\* NetworkClient::disconnect
client_disconnect ==
    /\ cn_state' = "Disconnected"
    /\ cn_link' = FALSE
    /\ cn_call' = [op |-> "disconnect"]
    /\ cn_returned' = "none"
    /\ UNCHANGED <<cnRest, cn_kind>>

InitConnect ==
    /\ transport = "tcp"
    /\ config = [require_auth |-> FALSE,
                 max_connections |-> MaxConnCfg,
                 client_timeout |-> 20,
                 keep_alive_interval |-> 20]
    /\ feature_file_transfer = TRUE
    /\ diff_config = DefaultDiffConfig
    /\ overflow_checks = FALSE
    /\ Constructed

NextConnect ==
    \/ \E kind \in ClientKinds : new_client(kind)
    \/ \E addressOk \in BOOLEAN, openOk \in BOOLEAN, withAuth \in BOOLEAN, sendOk \in BOOLEAN,
          reply \in AuthReplies : tcp_connect(addressOk, openOk, withAuth, sendOk, reply)
    \/ \E addressOk \in BOOLEAN, openOk \in BOOLEAN, withAuth \in BOOLEAN, sendOk \in BOOLEAN,
          reply \in AuthReplies : websocket_connect(addressOk, openOk, withAuth, sendOk, reply)
    \/ \E peerOk \in BOOLEAN, opens \in BOOLEAN : webrtc_connect(peerOk, opens)
    \/ client_disconnect

SpecConnect == InitConnect /\ [][NextConnect]_vars

\* C40: after connect() returned, the state is Connected exactly when it
\* returned Ok, and after Err the state is Error or Disconnected and
\* is_connected() is false.
C40_StateMatchesReturn ==
    cn_returned # "none"
        => /\ (cn_state = "Connected") <=> (cn_returned = "Ok")
           /\ cn_returned = "Err" => (cn_state \in {"Error", "Disconnected"} /\ ~is_connected)

====
